---- MODULE Spec2Model ----
(***************************************************************************)
(* Model of the concurrent inference pipeline of yolo-go-detector:         *)
(* ModelSessionPool, VideoDetectorManager, Worker and ProcessImageBatch.   *)
(*                                                                         *)
(* The repository carries two listings of the pipeline.  SubmitTask, Stop  *)
(* and ProcessImageBatch are textually the same in both and are modelled   *)
(* from src/unnamed/part_003.  The pool with its active-session counter    *)
(* and the batching Worker.run exist only in the listing at the end of     *)
(* src/RELEASE.md and are modelled from there.                             *)
(*                                                                         *)
(* Every Go channel operation, atomic operation and select statement is    *)
(* one atomic step.  A select whose timer case competes with a send takes  *)
(* the send when the channel has room and the timer case when it has not:  *)
(* a timer that fires in the instant in which the channel gets room leads  *)
(* to the state also reached by firing just before, so no reachable state  *)
(* is lost.                                                                *)
(*                                                                         *)
(* The detection functions of src/main.go (boundingBox.iou, the two        *)
(* non-maximum suppressions, resizeWithLetterbox and processOutput) are    *)
(* operators.  A float32 or float64 is an exact fraction [n, d] in lowest  *)
(* terms; d = 0 stands for +Inf, -Inf and NaN, which a division by zero    *)
(* produces in Go.  Box coordinates are counted in half pixels.            *)
(* DetectSpec and RoundTripSpec run processOutput on an empty              *)
(* boundingBoxPool; BoxPoolSpec follows the objects of that sync.Pool      *)
(* through several calls.                                                  *)
(***************************************************************************)
EXTENDS Integers, Sequences, FiniteSets, TLC

(* ------------------------------ bounds --------------------------------- *)
\* value of the -workers flag handed to NewVideoDetectorManager
NumWorkers == 2
\* value of the -queue-size flag handed to NewVideoDetectorManager
QueueSize == 1
\* runtime.NumCPU() of the machine
NumCPU == 2
\* PoolSpec: goroutines using one ModelSessionPool directly
NumCallers == 3
\* PoolSpec: maxSize of that pool
PoolMaxSize == 2
\* IouSpec: largest box coordinate, in half pixels
MaxCoord == 3
\* NmsSpec: largest number of boxes handed to the suppression
MaxBoxes == 3
\* DetectSpec: number of anchors and of classes in the output tensor
NumAnchors == 2
NumClasses == 2

(* --------------------------- program constants ------------------------- *)
batchSize == 4

\* number of direct SubmitTask calls made by API users: as many as fill the
\* batch of one worker
MaxExt == batchSize
\* largest number of image paths handed to ProcessImageBatch: one more than a
\* batch, so that one worker can fill its batch while another holds a task
MaxImages == batchSize + 1

(* ------------------------------- values -------------------------------- *)
\* a nil task.Callback
NilSink == -1
\* the channel API users pass as Callback and never read
ExtSink == 0
NoSession == 0
ErrExhausted == "exhausted"
ErrInit == "init"

\* the zero DetectionResult
ZeroResult == [ImagePath |-> 0, Error |-> "none"]

Min(a, b) == IF a < b THEN a ELSE b
Max(a, b) == IF a > b THEN a ELSE b

VARIABLES
    \* ModelSessionPool
    sessions,         \* pool.sessions: the buffered channel of idle sessions
    sessionsClosed,   \* pool.sessions has been closed
    maxSize,          \* pool.maxSize (also the capacity of pool.sessions)
    activeSessions,   \* pool.activeSessions
    live,             \* sessions created by initSession and not yet destroyed
    \* VideoDetectorManager
    taskQueue, taskQueueClosed,
    resultQueue, resultQueueClosed,
    queueCap,         \* capacity of taskQueue and of resultQueue
    shutdown,         \* manager.shutdown has been closed
    wshutdown,        \* worker.shutdown has been closed, per worker
    wg,               \* manager.wg counter
    \* goroutines that use the pool (workers, or direct pool callers)
    pc,               \* position of each goroutine
    held,             \* the *ModelSession the goroutine holds
    reads,            \* values createSession loaded from activeSessions
    getErr,           \* error returned by the current GetSession call
    \* Worker.run
    taskBatch,        \* taskBatch slice
    idx,              \* position of the range loop over taskBatch
    timer,            \* batchTimeout: "armed", "drained" or "stopped"
    result,           \* result of processTask for the current task
    \* result sinks: task.Callback channels
    sink,
    \* callers of the manager
    nextExt,          \* number of direct SubmitTask calls made so far
    lastSubmit,       \* history: the last SubmitTask call: its task, its return
                      \* value and whether manager.shutdown was closed before it
    spc, sidx,        \* position of Stop and of its loop over workers
    bpc, bi,          \* position of ProcessImageBatch and of its loops
    imagePaths,       \* argument of ProcessImageBatch
    results,          \* results slice of ProcessImageBatch
    submitErr,        \* history: submission error of item i, "none" if accepted
    \* boundingBox.iou
    b, other,         \* receiver and argument of a call of iou
    iouVal, iouRev,   \* b.iou(other) and other.iou(b)
    \* nonMaxSuppression and nonMaxSuppressionP
    input,            \* history: the boxes slice as the caller passed it
    boxes,            \* the boxes slice; sort.Slice sorts it in place
    iouThreshold,
    selected,         \* the slice returned
    first,            \* history: the slice an earlier call returned
    \* prepareInput and processOutput
    originalWidth, originalHeight,
    targetSize,       \* the inputSize handed to resizeWithLetterbox
    useRectScaling,   \* value of the -rect flag
    stride,           \* the stride handed to resizeWithRectScaling
    resized,          \* what resizeWithLetterbox or resizeWithRectScaling
                      \* returned
    output,           \* the output tensor, anchor by anchor
    confThreshold,
    \* position of the caller of the detection functions: "idle", "input",
    \* then "iou", "done" (nonMaxSuppression returned), "doneP"
    \* (nonMaxSuppressionP returned) or "twice"; "loaded", "prepared" and
    \* "detected" for an image, after "flags" (main has not parsed the flags)
    dpc,
    \* boundingBoxPool and the goroutines that run processOutput
    heap,             \* the boundingBox objects that boundingBoxPool.New made
    boundingBoxPool,  \* how many times each object is in the pool
    ppc,              \* position of each goroutine in processOutput
    tensor,           \* the output tensor of its call
    anchorIdx,        \* idx of its loop over the anchors
    boxPtrs,          \* its boundingBoxes slice: pointers to objects
    detections,       \* what its call returned
    ncalls            \* number of calls of processOutput made so far

poolVars == <<sessions, sessionsClosed, maxSize, activeSessions, live>>
mgrVars == <<taskQueue, taskQueueClosed, resultQueue, resultQueueClosed,
             queueCap, shutdown, wshutdown, wg>>
procVars == <<pc, held, reads, getErr>>
workerVars == <<taskBatch, idx, timer, result>>
callerVars == <<nextExt, lastSubmit, spc, sidx, bpc, bi, imagePaths, results,
                submitErr>>
iouVars == <<b, other, iouVal, iouRev>>
nmsVars == <<input, boxes, iouThreshold, selected, first>>
imgVars == <<originalWidth, originalHeight, targetSize, useRectScaling, stride,
             resized, output, confThreshold>>
boxPoolVars == <<heap, boundingBoxPool, ppc, tensor, anchorIdx, boxPtrs,
                 detections, ncalls>>
detVars == <<iouVars, nmsVars, imgVars, dpc, boxPoolVars>>
vars == <<poolVars, mgrVars, procVars, workerVars, sink, callerVars, detVars>>

Procs == DOMAIN pc

(* ------------------------- ModelSessionPool ----------------------------- *)

\* NewModelSessionPool: number of sessions it tries to pre-create
preCreateCount(size) == Max(1, Min(size \div 2, NumCPU))

\* a createSession that hands out a session that is live already
LiveSession == IF live = {} THEN 1 ELSE CHOOSE s \in live : TRUE

\* initSession: the handle of a new session; no live session uses it
FreshSession ==
    CHOOSE s \in 1..(Cardinality(live) + 1) :
        s \notin live /\ \A r \in 1..(s - 1) : r \in live

\* a health check that no session passes
SessionValidNever(s) == FALSE

\* the health check of GetSession and PutSession:
\* session != nil && session.Session != nil.  Destroy never resets Session,
\* so every session that initSession returned passes it.
SessionValid(s) == s # NoSession

\* GetSession, first select: take an idle session or fall through
GetSelect(p) ==
    /\ pc[p] = "get_select"
    /\ IF sessions # <<>>
          THEN /\ sessions' = Tail(sessions)
               /\ IF SessionValid(Head(sessions))
                     THEN /\ held' = [held EXCEPT ![p] = Head(sessions)]
                          /\ pc' = [pc EXCEPT ![p] = "get_inc"]
                          /\ live' = live
                     ELSE /\ held' = held
                          /\ pc' = [pc EXCEPT ![p] = "create_check"]
                          /\ live' = live \ {Head(sessions)}
          ELSE /\ pc' = [pc EXCEPT ![p] = "create_check"]
               /\ UNCHANGED <<sessions, held, live>>
    /\ reads' = [reads EXCEPT ![p] = <<>>]
    /\ getErr' = [getErr EXCEPT ![p] = "none"]
    /\ UNCHANGED <<sessionsClosed, maxSize, activeSessions>>
    /\ UNCHANGED <<mgrVars, workerVars, sink, callerVars>>

\* GetSession: atomic.AddInt32(&pool.activeSessions, 1); return session, nil
GetInc(p) ==
    /\ pc[p] = "get_inc"
    /\ activeSessions' = activeSessions + 1
    /\ pc' = [pc EXCEPT ![p] = "get_ret"]
    /\ UNCHANGED <<sessions, sessionsClosed, maxSize, live, held, reads, getErr>>
    /\ UNCHANGED <<mgrVars, workerVars, sink, callerVars>>

\* a capacity test that lets the count go one past maxSize
AtCapacityStrict(n) == n > maxSize

\* createSession: the capacity test on a loaded value of activeSessions
AtCapacity(n) == n >= maxSize

\* createSession: a load of activeSessions and the test on it.  The first
\* load leads to initSession or to the sleep; the second load, after
\* time.Sleep(10ms), leads to initSession or to the error.
CreateCheck(p) ==
    /\ pc[p] \in {"create_check", "create_sleep"}
    /\ reads' = [reads EXCEPT ![p] = Append(@, activeSessions)]
    /\ IF ~AtCapacity(activeSessions)
          THEN /\ pc' = [pc EXCEPT ![p] = "create_init"]
               /\ getErr' = getErr
          ELSE IF pc[p] = "create_check"
          THEN /\ pc' = [pc EXCEPT ![p] = "create_sleep"]
               /\ getErr' = getErr
          ELSE /\ pc' = [pc EXCEPT ![p] = "get_ret"]
               /\ getErr' = [getErr EXCEPT ![p] = ErrExhausted]
    /\ UNCHANGED <<poolVars, held>>
    /\ UNCHANGED <<mgrVars, workerVars, sink, callerVars>>

\* createSession: initSession() succeeds or fails
CreateInit(p) ==
    /\ pc[p] = "create_init"
    /\ \E ok \in BOOLEAN :
          IF ok
             THEN /\ held' = [held EXCEPT ![p] = FreshSession]
                  /\ live' = live \cup {FreshSession}
                  /\ pc' = [pc EXCEPT ![p] = "create_inc"]
                  /\ getErr' = getErr
             ELSE /\ getErr' = [getErr EXCEPT ![p] = ErrInit]
                  /\ pc' = [pc EXCEPT ![p] = "get_ret"]
                  /\ UNCHANGED <<held, live>>
    /\ UNCHANGED <<sessions, sessionsClosed, maxSize, activeSessions, reads>>
    /\ UNCHANGED <<mgrVars, workerVars, sink, callerVars>>

\* createSession: atomic.AddInt32(&pool.activeSessions, 1); return session
CreateInc(p) ==
    /\ pc[p] = "create_inc"
    /\ activeSessions' = activeSessions + 1
    /\ pc' = [pc EXCEPT ![p] = "get_ret"]
    /\ UNCHANGED <<sessions, sessionsClosed, maxSize, live, held, reads, getErr>>
    /\ UNCHANGED <<mgrVars, workerVars, sink, callerVars>>

\* PutSession: atomic.AddInt32(&pool.activeSessions, -1), then the nil test
PutDec(p) ==
    /\ pc[p] = "put_dec"
    /\ activeSessions' = activeSessions - 1
    /\ IF SessionValid(held[p])
          THEN /\ pc' = [pc EXCEPT ![p] = "put_push"]
               /\ held' = held
          ELSE /\ pc' = [pc EXCEPT ![p] = "put_ret"]
               /\ held' = [held EXCEPT ![p] = NoSession]
    /\ UNCHANGED <<sessions, sessionsClosed, maxSize, live, reads, getErr>>
    /\ UNCHANGED <<mgrVars, workerVars, sink, callerVars>>

\* PutSession, select: retain the session if the channel has room,
\* otherwise Destroy it.  A send on a closed channel panics.
PutPush(p) ==
    /\ pc[p] = "put_push"
    /\ IF sessionsClosed
          THEN /\ pc' = [pc EXCEPT ![p] = "panic"]
               /\ UNCHANGED <<sessions, live, held>>
          ELSE /\ pc' = [pc EXCEPT ![p] = "put_ret"]
               /\ held' = [held EXCEPT ![p] = NoSession]
               /\ IF Len(sessions) < maxSize
                     THEN /\ sessions' = Append(sessions, held[p])
                          /\ live' = live
                     ELSE /\ sessions' = sessions
                          /\ live' = live \ {held[p]}
    /\ UNCHANGED <<sessionsClosed, maxSize, activeSessions, reads, getErr>>
    /\ UNCHANGED <<mgrVars, workerVars, sink, callerVars>>

PoolStep(p) ==
    \/ GetSelect(p)
    \/ GetInc(p)
    \/ CreateCheck(p)
    \/ CreateInit(p)
    \/ CreateInc(p)
    \/ PutDec(p)
    \/ PutPush(p)

(* ------------ goroutines calling GetSession and PutSession -------------- *)

\* a goroutine calls pool.GetSession()
CallerGet(p) ==
    /\ pc[p] = "caller"
    /\ pc' = [pc EXCEPT ![p] = "get_select"]
    /\ UNCHANGED <<poolVars, held, reads, getErr>>
    /\ UNCHANGED <<mgrVars, workerVars, sink, callerVars>>

\* GetSession returned: on error the goroutine holds nothing
CallerAfterGet(p) ==
    /\ pc[p] = "get_ret"
    /\ pc' = [pc EXCEPT ![p] = IF getErr[p] = "none" THEN "using" ELSE "caller"]
    /\ reads' = [reads EXCEPT ![p] = <<>>]
    /\ getErr' = [getErr EXCEPT ![p] = "none"]
    /\ UNCHANGED <<poolVars, held>>
    /\ UNCHANGED <<mgrVars, workerVars, sink, callerVars>>

\* the goroutine calls pool.PutSession(session)
CallerPut(p) ==
    /\ pc[p] = "using"
    /\ pc' = [pc EXCEPT ![p] = "put_dec"]
    /\ UNCHANGED <<poolVars, held, reads, getErr>>
    /\ UNCHANGED <<mgrVars, workerVars, sink, callerVars>>

\* PutSession returned
CallerAfterPut(p) ==
    /\ pc[p] = "put_ret"
    /\ pc' = [pc EXCEPT ![p] = "caller"]
    /\ UNCHANGED <<poolVars, held, reads, getErr>>
    /\ UNCHANGED <<mgrVars, workerVars, sink, callerVars>>

CallerStep(p) ==
    \/ CallerGet(p)
    \/ CallerAfterGet(p)
    \/ CallerPut(p)
    \/ CallerAfterPut(p)
    \/ PoolStep(p)

(* ------------------------ VideoDetectorManager -------------------------- *)

\* NewVideoDetectorManager: workerCount after the limit of 2 * NumCPU
workerCount == Min(NumWorkers, NumCPU * 2)

\* a pool made for half of the workers
maxSessionsHalf == Max(1, workerCount \div 2)

\* NewVideoDetectorManager: maxSessions handed to NewModelSessionPool
maxSessions == Min(workerCount, NumCPU * 2)

Workers == 1..workerCount

\* capacity of a Callback channel: make(chan DetectionResult, 1)
SinkCap == 1

\* a send that still proceeds when the buffer is full
SendReadyOffByOne == taskQueueClosed \/ Len(taskQueue) <= queueCap

\* SubmitTask, case manager.taskQueue <- task: the send can proceed when the
\* buffer has room; on a closed channel it proceeds too, and panics
SendReady == taskQueueClosed \/ Len(taskQueue) < queueCap

\* SubmitTask: the values the select can return.  Go picks one of the ready
\* cases at random and takes default only when none is ready.
SubmitOutcomes ==
    IF ~SendReady /\ ~shutdown
       THEN {"full"}
       ELSE (IF SendReady
                THEN {IF taskQueueClosed THEN "panic" ELSE "ok"}
                ELSE {})
            \cup (IF shutdown THEN {"closed"} ELSE {})

\* SubmitTask(task) returning ret
SubmitTask(task, ret) ==
    /\ ret \in SubmitOutcomes
    /\ taskQueue' = IF ret = "ok" THEN Append(taskQueue, task) ELSE taskQueue
    /\ lastSubmit' = [task |-> task.id, ret |-> ret, shut |-> shutdown]

\* an API user builds a task and calls SubmitTask
ExtSubmit ==
    /\ nextExt < MaxExt
    /\ lastSubmit.ret # "panic"
    /\ nextExt' = nextExt + 1
    /\ \E cb \in {NilSink, ExtSink}, ret \in {"ok", "full", "closed", "panic"} :
          SubmitTask([id |-> -(nextExt + 1), ImagePath |-> -(nextExt + 1),
                      Callback |-> cb], ret)
    /\ UNCHANGED <<poolVars, procVars, workerVars, sink>>
    /\ UNCHANGED <<taskQueueClosed, resultQueue, resultQueueClosed, queueCap,
                   shutdown, wshutdown, wg>>
    /\ UNCHANGED <<spc, sidx, bpc, bi, imagePaths, results, submitErr>>

\* an API user receives from GetResult()
ConsumeResult ==
    /\ resultQueue # <<>>
    /\ resultQueue' = Tail(resultQueue)
    /\ UNCHANGED <<poolVars, procVars, workerVars, sink, callerVars>>
    /\ UNCHANGED <<taskQueue, taskQueueClosed, resultQueueClosed, queueCap,
                   shutdown, wshutdown, wg>>

(* -------------------------------- Stop ---------------------------------- *)

\* Stop: close(manager.shutdown)
StopSignal ==
    /\ spc = "idle"
    /\ shutdown' = TRUE
    /\ spc' = "close_workers"
    /\ sidx' = 1
    /\ UNCHANGED <<poolVars, procVars, workerVars, sink>>
    /\ UNCHANGED <<taskQueue, taskQueueClosed, resultQueue, resultQueueClosed,
                   queueCap, wshutdown, wg>>
    /\ UNCHANGED <<nextExt, lastSubmit, bpc, bi, imagePaths, results, submitErr>>

\* Stop: one iteration of the loop close(worker.shutdown)
StopCloseWorker ==
    /\ spc = "close_workers"
    /\ wshutdown' = [wshutdown EXCEPT ![sidx] = TRUE]
    /\ sidx' = sidx + 1
    /\ spc' = IF sidx = workerCount THEN "wait" ELSE "close_workers"
    /\ UNCHANGED <<poolVars, procVars, workerVars, sink>>
    /\ UNCHANGED <<taskQueue, taskQueueClosed, resultQueue, resultQueueClosed,
                   queueCap, shutdown, wg>>
    /\ UNCHANGED <<nextExt, lastSubmit, bpc, bi, imagePaths, results, submitErr>>

\* Stop: manager.wg.Wait() returns
StopWait ==
    /\ spc = "wait"
    /\ wg = 0
    /\ spc' = "close_task"
    /\ UNCHANGED <<poolVars, mgrVars, procVars, workerVars, sink>>
    /\ UNCHANGED <<nextExt, lastSubmit, sidx, bpc, bi, imagePaths, results,
                   submitErr>>

\* Stop: close(manager.taskQueue)
StopCloseTaskQueue ==
    /\ spc = "close_task"
    /\ taskQueueClosed' = TRUE
    /\ spc' = "close_result"
    /\ UNCHANGED <<poolVars, procVars, workerVars, sink>>
    /\ UNCHANGED <<taskQueue, resultQueue, resultQueueClosed, queueCap,
                   shutdown, wshutdown, wg>>
    /\ UNCHANGED <<nextExt, lastSubmit, sidx, bpc, bi, imagePaths, results,
                   submitErr>>

\* Stop: close(manager.resultQueue)
StopCloseResultQueue ==
    /\ spc = "close_result"
    /\ resultQueueClosed' = TRUE
    /\ spc' = "close_pool"
    /\ UNCHANGED <<poolVars, procVars, workerVars, sink>>
    /\ UNCHANGED <<taskQueue, taskQueueClosed, resultQueue, queueCap,
                   shutdown, wshutdown, wg>>
    /\ UNCHANGED <<nextExt, lastSubmit, sidx, bpc, bi, imagePaths, results,
                   submitErr>>

\* Stop: close(manager.sessionPool.sessions) and Destroy every idle session
StopClosePool ==
    /\ spc = "close_pool"
    /\ sessionsClosed' = TRUE
    /\ live' = live \ {sessions[i] : i \in 1..Len(sessions)}
    /\ sessions' = <<>>
    /\ spc' = "stopped"
    /\ UNCHANGED <<maxSize, activeSessions>>
    /\ UNCHANGED <<mgrVars, procVars, workerVars, sink>>
    /\ UNCHANGED <<nextExt, lastSubmit, sidx, bpc, bi, imagePaths, results,
                   submitErr>>

StopStep ==
    \/ StopSignal
    \/ StopCloseWorker
    \/ StopWait
    \/ StopCloseTaskQueue
    \/ StopCloseResultQueue
    \/ StopClosePool

(* ------------------------------ Worker ---------------------------------- *)

\* Worker.run: the condition of the collection loop, len(taskBatch) < batchSize
CollectMore(batch) == Len(batch) < batchSize

\* Worker.run: where the worker goes after the collection loop or after the
\* publication of a result, with the range loop at position i of batch:
\* processTask of the next task, which begins with GetSession, or, past the
\* last task, the collection loop again
Continue(batch, i) == IF i <= Len(batch) THEN "get_select" ELSE "collect"

\* Worker.run, case task, ok := <-worker.manager.taskQueue.  A closed and
\* empty queue makes the worker return.  After the append the loop condition
\* is tested; when it fails the worker stops the timer and starts the range
\* loop over taskBatch.
CollectTask(w) ==
    /\ pc[w] = "collect"
    /\ taskQueue # <<>> \/ taskQueueClosed
    /\ IF taskQueue # <<>>
          THEN /\ taskQueue' = Tail(taskQueue)
               /\ taskBatch' = [taskBatch EXCEPT ![w] = Append(@, Head(taskQueue))]
               /\ IF CollectMore(taskBatch'[w])
                     THEN UNCHANGED <<pc, timer>>
                     ELSE /\ pc' = [pc EXCEPT ![w] = Continue(taskBatch'[w], 1)]
                          /\ timer' = [timer EXCEPT ![w] = "stopped"]
               /\ wg' = wg
          ELSE /\ pc' = [pc EXCEPT ![w] = "done"]
               /\ timer' = [timer EXCEPT ![w] = "stopped"]
               /\ wg' = wg - 1
               /\ UNCHANGED <<taskQueue, taskBatch>>
    /\ UNCHANGED <<poolVars, held, reads, getErr, idx, result, sink, callerVars>>
    /\ UNCHANGED <<taskQueueClosed, resultQueue, resultQueueClosed, queueCap,
                   shutdown, wshutdown>>

\* Worker.run, case <-batchTimeout.C: break.  The break leaves the select
\* statement; the loop condition is tested again with an unchanged taskBatch.
\* The timer has delivered its only value.
CollectTimeout(w) ==
    /\ pc[w] = "collect"
    /\ timer[w] = "armed"
    /\ IF CollectMore(taskBatch[w])
          THEN /\ timer' = [timer EXCEPT ![w] = "drained"]
               /\ pc' = pc
          ELSE /\ timer' = [timer EXCEPT ![w] = "stopped"]
               /\ pc' = [pc EXCEPT ![w] = Continue(taskBatch[w], 1)]
    /\ UNCHANGED <<poolVars, mgrVars, held, reads, getErr, sink, callerVars>>
    /\ UNCHANGED <<taskBatch, idx, result>>

\* Worker.run, case <-worker.shutdown: batchTimeout.Stop(); return
CollectShutdown(w) ==
    /\ pc[w] = "collect"
    /\ wshutdown[w]
    /\ pc' = [pc EXCEPT ![w] = "done"]
    /\ timer' = [timer EXCEPT ![w] = "stopped"]
    /\ wg' = wg - 1
    /\ UNCHANGED <<poolVars, held, reads, getErr, sink, callerVars>>
    /\ UNCHANGED <<taskQueue, taskQueueClosed, resultQueue, resultQueueClosed,
                   queueCap, shutdown, wshutdown>>
    /\ UNCHANGED <<taskBatch, idx, result>>

\* a range loop that hands out the first task of the batch again
CurTaskFirst(w) == taskBatch[w][1]

\* the task the range loop of Worker.run is at
CurTask(w) == taskBatch[w][idx[w]]

\* the errors loadImageFile, prepareInput and Session.Run can make processTask
\* return; "none" is the return after processOutput
TaskOutcomes == {"decode", "prepare", "infer", "none"}

\* processTask after GetSession returned.  On an error the result carries it
\* and PutSession is not deferred.  Otherwise loadImageFile, prepareInput,
\* Session.Run and processOutput run, the result is built, and the deferred
\* PutSession is called.
ProcessTask(w) ==
    /\ pc[w] = "get_ret"
    /\ IF getErr[w] # "none"
          THEN /\ result' = [result EXCEPT ![w] =
                               [ImagePath |-> CurTask(w).ImagePath,
                                Error |-> "session"]]
               /\ pc' = [pc EXCEPT ![w] = "task_ret"]
          ELSE /\ \E e \in TaskOutcomes :
                     result' = [result EXCEPT ![w] =
                                  [ImagePath |-> CurTask(w).ImagePath,
                                   Error |-> e]]
               /\ pc' = [pc EXCEPT ![w] = "put_dec"]
    /\ reads' = [reads EXCEPT ![w] = <<>>]
    /\ getErr' = [getErr EXCEPT ![w] = "none"]
    /\ UNCHANGED <<poolVars, mgrVars, held, sink, callerVars>>
    /\ UNCHANGED <<taskBatch, idx, timer>>

\* a publication that waits for the deferred PutSession, which a task whose
\* GetSession call failed never runs
TaskReturnedAfterPut(w) == pc[w] = "put_ret"

\* processTask has returned, with or without the deferred PutSession
TaskReturned(w) == pc[w] \in {"task_ret", "put_ret"}

\* Worker.run, the select on task.Callback: "skip" for a nil Callback, "send"
\* when the channel has room, otherwise "timeout", the case
\* <-time.After(500ms)
SelectCallback(w) ==
    IF CurTask(w).Callback = NilSink THEN "skip"
    ELSE IF Len(sink[CurTask(w).Callback]) < SinkCap THEN "send"
    ELSE "timeout"

\* Worker.run: the first publication, to the private sink of the task
PublishCallback(w) ==
    /\ TaskReturned(w)
    /\ SelectCallback(w) \in {"skip", "send", "timeout"}
    /\ sink' = IF SelectCallback(w) = "send"
                  THEN [sink EXCEPT ![CurTask(w).Callback] = Append(@, result[w])]
                  ELSE sink
    /\ pc' = [pc EXCEPT ![w] = "pub_queue"]
    /\ UNCHANGED <<poolVars, mgrVars, held, reads, getErr, callerVars>>
    /\ UNCHANGED <<workerVars>>

\* a select on the result queue without the timer case: it blocks while the
\* queue is full
SelectResultQueueNoTimer ==
    IF resultQueueClosed THEN "panic"
    ELSE IF Len(resultQueue) < queueCap THEN "send"
    ELSE "block"

\* Worker.run, the select on worker.manager.resultQueue: "send" when the
\* channel has room, "panic" for the send on a closed channel, otherwise
\* "timeout", the case <-time.After(500ms)
SelectResultQueue ==
    IF resultQueueClosed THEN "panic"
    ELSE IF Len(resultQueue) < queueCap THEN "send"
    ELSE "timeout"

\* Worker.run: the second publication, to the shared result queue; then the
\* range loop moves on, and past the last task the outer loop starts over
\* with an empty taskBatch and a new timer
PublishResultQueue(w) ==
    /\ pc[w] = "pub_queue"
    /\ SelectResultQueue \in {"send", "timeout", "panic"}
    /\ resultQueue' = IF SelectResultQueue = "send"
                         THEN Append(resultQueue, result[w])
                         ELSE resultQueue
    /\ IF SelectResultQueue = "panic"
          THEN /\ pc' = [pc EXCEPT ![w] = "panic"]
               /\ UNCHANGED workerVars
          ELSE /\ pc' = [pc EXCEPT ![w] = Continue(taskBatch[w], idx[w] + 1)]
               /\ result' = [result EXCEPT ![w] = ZeroResult]
               /\ IF idx[w] + 1 <= Len(taskBatch[w])
                     THEN /\ idx' = [idx EXCEPT ![w] = @ + 1]
                          /\ UNCHANGED <<taskBatch, timer>>
                     ELSE /\ idx' = [idx EXCEPT ![w] = 1]
                          /\ taskBatch' = [taskBatch EXCEPT ![w] = <<>>]
                          /\ timer' = [timer EXCEPT ![w] = "armed"]
    /\ UNCHANGED <<poolVars, held, reads, getErr, sink, callerVars>>
    /\ UNCHANGED <<taskQueue, taskQueueClosed, resultQueueClosed, queueCap,
                   shutdown, wshutdown, wg>>

\* the steps of a worker while no shutdown is signalled
RunningStep(w) ==
    \/ CollectTask(w)
    \/ CollectTimeout(w)
    \/ ProcessTask(w)
    \/ PublishCallback(w)
    \/ PublishResultQueue(w)
    \/ PoolStep(w)

WorkerStep(w) ==
    \/ RunningStep(w)
    \/ CollectShutdown(w)

(* -------------------------- ProcessImageBatch --------------------------- *)

\* the error ProcessImageBatch records for a failed SubmitTask
SubmitError(ret) == IF ret = "full" THEN "submit_full" ELSE "submit_closed"

\* ProcessImageBatch is called with k image paths: results and callbacks are
\* made, one buffered callback channel per path
BatchStart ==
    /\ bpc = "idle"
    /\ \E k \in 0..MaxImages :
          /\ imagePaths' = [i \in 1..k |-> 100 + i]
          /\ results' = [i \in 1..k |-> ZeroResult]
          /\ submitErr' = [i \in 1..k |-> "none"]
          /\ bpc' = IF k = 0 THEN "returned" ELSE "submit"
    /\ bi' = 1
    /\ UNCHANGED <<poolVars, mgrVars, procVars, workerVars, sink>>
    /\ UNCHANGED <<nextExt, lastSubmit, spc, sidx>>

\* ProcessImageBatch, first loop: submit the task of item bi and record a
\* submission error in results[bi]
BatchSubmit ==
    /\ bpc = "submit"
    /\ \E ret \in {"ok", "full", "closed", "panic"} :
          /\ SubmitTask([id |-> bi, ImagePath |-> imagePaths[bi],
                         Callback |-> bi], ret)
          /\ results' = IF ret \in {"full", "closed"}
                           THEN [results EXCEPT ![bi] =
                                   [ImagePath |-> imagePaths[bi],
                                    Error |-> SubmitError(ret)]]
                           ELSE results
          /\ submitErr' = [submitErr EXCEPT ![bi] = IF ret = "ok" THEN "none" ELSE ret]
          /\ bpc' = IF ret = "panic" THEN "panic"
                    ELSE IF bi = Len(imagePaths) THEN "wait" ELSE "submit"
          /\ bi' = IF ret = "panic" THEN bi
                   ELSE IF bi = Len(imagePaths) THEN 1 ELSE bi + 1
    /\ UNCHANGED <<poolVars, procVars, workerVars, sink>>
    /\ UNCHANGED <<taskQueueClosed, resultQueue, resultQueueClosed, queueCap,
                   shutdown, wshutdown, wg>>
    /\ UNCHANGED <<nextExt, spc, sidx, imagePaths>>

\* ProcessImageBatch, second loop: case result := <-callback
BatchReceive ==
    /\ bpc = "wait"
    /\ sink[bi] # <<>>
    /\ results' = [results EXCEPT ![bi] = Head(sink[bi])]
    /\ sink' = [sink EXCEPT ![bi] = Tail(@)]
    /\ bpc' = IF bi = Len(imagePaths) THEN "returned" ELSE "wait"
    /\ bi' = IF bi = Len(imagePaths) THEN bi ELSE bi + 1
    /\ UNCHANGED <<poolVars, mgrVars, procVars, workerVars>>
    /\ UNCHANGED <<nextExt, lastSubmit, spc, sidx, imagePaths, submitErr>>

\* a timeout result built without its ImagePath
TimeoutResultNoPath(i) == [ImagePath |-> 0, Error |-> "timeout"]

\* ProcessImageBatch: the result recorded for item i when its wait times out
TimeoutResult(i) == [ImagePath |-> imagePaths[i], Error |-> "timeout"]

\* ProcessImageBatch, second loop: case <-time.After(manager.timeout)
BatchTimeout ==
    /\ bpc = "wait"
    /\ sink[bi] = <<>>
    /\ results' = [results EXCEPT ![bi] = TimeoutResult(bi)]
    /\ bpc' = IF bi = Len(imagePaths) THEN "returned" ELSE "wait"
    /\ bi' = IF bi = Len(imagePaths) THEN bi ELSE bi + 1
    /\ UNCHANGED <<poolVars, mgrVars, procVars, workerVars, sink>>
    /\ UNCHANGED <<nextExt, lastSubmit, spc, sidx, imagePaths, submitErr>>

BatchStep ==
    \/ BatchStart
    \/ BatchSubmit
    \/ BatchReceive
    \/ BatchTimeout

(* ------------------ float32 values as exact fractions ------------------- *)
\* A float32 or float64 value is the fraction n/d in lowest terms with d > 0;
\* the rounding of the binary formats is not modelled.  Division by zero
\* gives the IEEE values: d = 0 with n = 1 is +Inf, with n = -1 is -Inf and
\* with n = 0 is NaN.

Abs(i) == IF i < 0 THEN -i ELSE i

RECURSIVE GCD(_, _)
GCD(i, j) == IF j = 0 THEN i ELSE GCD(j, i % j)

Sign(i) == IF i > 0 THEN 1 ELSE IF i < 0 THEN -1 ELSE 0

\* the value n/d
Frac(n, d) ==
    IF d = 0 THEN [n |-> Sign(n), d |-> 0]
    ELSE LET g == GCD(Abs(n), Abs(d))
         IN  [n |-> Sign(d) * (n \div g), d |-> Abs(d) \div g]

\* float32(i) of an int i
Float(i) == [n |-> i, d |-> 1]

IsNaN(x) == x.d = 0 /\ x.n = 0

\* the operators +, -, * and / on finite values; / of a finite value by zero
FAdd(x, y) == Frac(x.n * y.d + y.n * x.d, x.d * y.d)
FSub(x, y) == Frac(x.n * y.d - y.n * x.d, x.d * y.d)
FMul(x, y) == Frac(x.n * y.n, x.d * y.d)
FDiv(x, y) == Frac(x.n * y.d, x.d * y.n)

\* the comparisons <, <=, >= and ==: false when an operand is NaN
FLt(x, y) ==
    /\ ~IsNaN(x) /\ ~IsNaN(y)
    /\ IF x.d = 0 \/ y.d = 0
          THEN \/ x.d = 0 /\ x.n < 0 /\ ~(y.d = 0 /\ y.n < 0)
               \/ y.d = 0 /\ y.n > 0 /\ ~(x.d = 0 /\ x.n > 0)
          ELSE x.n * y.d < y.n * x.d
FLe(x, y) == ~IsNaN(x) /\ ~IsNaN(y) /\ ~FLt(y, x)
FGe(x, y) == FLe(y, x)
FEq(x, y) == ~IsNaN(x) /\ ~IsNaN(y) /\ x = y

\* int(x): the conversion truncates toward zero
Trunc(x) == IF x.n >= 0 THEN x.n \div x.d ELSE -((-x.n) \div x.d)

\* math.Round(x): to the nearest integer, halves away from zero
Round(x) ==
    IF x.n >= 0 THEN (2 * x.n + x.d) \div (2 * x.d)
    ELSE -((2 * (-x.n) + x.d) \div (2 * x.d))

(* ----------------------------- boundingBox ------------------------------ *)

\* a boundingBox with its coordinates given in half pixels
Box(label, confidence, x1, y1, x2, y2) ==
    [label |-> label, confidence |-> confidence,
     x1 |-> Frac(x1, 2), y1 |-> Frac(y1, 2),
     x2 |-> Frac(x2, 2), y2 |-> Frac(y2, 2)]

\* image.Rect: the rectangle with the given corners, put in canonical order
Rect(x0, y0, x1, y1) ==
    [MinX |-> Min(x0, x1), MinY |-> Min(y0, y1),
     MaxX |-> Max(x0, x1), MaxY |-> Max(y0, y1)]

\* boundingBox.toRect: every coordinate rounded by int(c + 0.5)
toRect(bb) ==
    Rect(Trunc(FAdd(bb.x1, Frac(1, 2))), Trunc(FAdd(bb.y1, Frac(1, 2))),
         Trunc(FAdd(bb.x2, Frac(1, 2))), Trunc(FAdd(bb.y2, Frac(1, 2))))

\* boundingBox.area
area(bb) == FMul(FSub(bb.x2, bb.x1), FSub(bb.y2, bb.y1))

\* Rectangle.Intersect: the largest rectangle contained in both, the zero
\* rectangle when that is empty
Intersect(r, s) ==
    LET t == [MinX |-> Max(r.MinX, s.MinX), MinY |-> Max(r.MinY, s.MinY),
              MaxX |-> Min(r.MaxX, s.MaxX), MaxY |-> Min(r.MaxY, s.MaxY)]
    IN  IF t.MinX >= t.MaxX \/ t.MinY >= t.MaxY
           THEN [MinX |-> 0, MinY |-> 0, MaxX |-> 0, MaxY |-> 0]
           ELSE t

\* boundingBox.intersection: the area of the intersection of the two rounded
\* rectangles
intersection(bb, o) ==
    LET r == Intersect(toRect(bb), toRect(o))
    IN  Float((r.MaxX - r.MinX) * (r.MaxY - r.MinY))

\* a union that leaves out the area of the other box
unionOfReceiver(bb, o) == FSub(area(bb), intersection(bb, o))

\* boundingBox.union
union(bb, o) == FSub(FAdd(area(bb), area(o)), intersection(bb, o))

\* boundingBox.iou
iou(bb, o) == FDiv(intersection(bb, o), union(bb, o))

(* ------------------------ nonMaxSuppression ----------------------------- *)

\* an inner loop that compares box i with the next box only
InnerRangeNext(i, n) == (i + 1)..Min(i + 1, n)

\* the inner loop: for j := i + 1; j < len(boxes); j++
InnerRange(i, n) == (i + 1)..n

\* a test that suppresses at an IoU above the threshold only
SuppressesAbove(keep, cand, t) ==
    keep.label = cand.label /\ FGe(iou(keep, cand), t) /\ ~FEq(iou(keep, cand), t)

\* a test that compares boxes of all labels
SuppressesAnyLabel(keep, cand, t) == FGe(iou(keep, cand), t)

\* the inner loop's test on boxes[i] and an unpicked boxes[j]: the labels are
\* equal and iou >= iouThreshold
Suppresses(keep, cand, t) == keep.label = cand.label /\ FGe(iou(keep, cand), t)

\* the outer loop from index i on, with the picked flags and the selected
\* slice it has built so far
RECURSIVE nmsLoop(_, _, _, _, _)
nmsLoop(bs, picked, i, sel, t) ==
    IF i > Len(bs) THEN sel
    ELSE IF picked[i] THEN nmsLoop(bs, picked, i + 1, sel, t)
    ELSE nmsLoop(bs,
                 [j \in 1..Len(bs) |->
                     \/ picked[j]
                     \/ j = i
                     \/ j \in InnerRange(i, Len(bs)) /\ Suppresses(bs[i], bs[j], t)],
                 i + 1, Append(sel, bs[i]), t)

\* nonMaxSuppressionP: the loops on the slice as the caller ordered it
nonMaxSuppressionP(bs, t) ==
    IF Len(bs) = 0 THEN <<>>
    ELSE nmsLoop(bs, [j \in 1..Len(bs) |-> FALSE], 1, <<>>, t)

\* nonMaxSuppressionP: how many times the loops hand each boxes[j] to
\* boundingBoxPool.Put.  The outer loop from index i on puts a box it finds
\* picked, and the inner loop puts a box when it suppresses it; the last loop
\* puts the boxes that are not picked.
RECURSIVE nmsPuts(_, _, _, _, _)
nmsPuts(bs, picked, i, puts, t) ==
    IF i > Len(bs)
       THEN [j \in 1..Len(bs) |-> puts[j] + (IF picked[j] THEN 0 ELSE 1)]
    ELSE IF picked[i]
       THEN nmsPuts(bs, picked, i + 1, [puts EXCEPT ![i] = @ + 1], t)
    ELSE nmsPuts(bs,
                 [j \in 1..Len(bs) |->
                     \/ picked[j]
                     \/ j = i
                     \/ j \in InnerRange(i, Len(bs)) /\ Suppresses(bs[i], bs[j], t)],
                 i + 1,
                 [j \in 1..Len(bs) |->
                     IF /\ j \in InnerRange(i, Len(bs))
                        /\ ~picked[j]
                        /\ Suppresses(bs[i], bs[j], t)
                        THEN puts[j] + 1 ELSE puts[j]],
                 t)

\* sort.Slice with less = boxes[i].confidence > boxes[j].confidence: the
\* slice can end in any order in which no box has a lower confidence than a
\* later one; the sort is not stable
SortSlice(bs) ==
    {[k \in 1..Len(bs) |-> bs[f[k]]] :
        f \in {g \in [1..Len(bs) -> 1..Len(bs)] :
                 /\ \A k, l \in 1..Len(bs) : k # l => g[k] # g[l]
                 /\ \A k, l \in 1..Len(bs) :
                       k < l => ~FLt(bs[g[k]].confidence, bs[g[l]].confidence)}}

\* nonMaxSuppression after its sort.Slice left the slice as sorted
nonMaxSuppression(sorted, t) ==
    IF Len(sorted) = 0 THEN sorted
    ELSE nmsLoop(sorted, [j \in 1..Len(sorted) |-> FALSE], 1, <<>>, t)

(* --------------------------- initial states ----------------------------- *)

\* state of the pool after NewModelSessionPool(size, modelPath): every one of
\* the preCreateCount calls of initSession may fail
InitPool(size) ==
    /\ maxSize = size
    /\ \E n \in 0..preCreateCount(size) :
          /\ sessions = [i \in 1..n |-> i]
          /\ live = 1..n
    /\ sessionsClosed = FALSE
    /\ activeSessions = 0

\* the goroutines P, each at position at
InitProcs(P, at) ==
    /\ pc = [p \in P |-> at]
    /\ held = [p \in P |-> NoSession]
    /\ reads = [p \in P |-> <<>>]
    /\ getErr = [p \in P |-> "none"]
    /\ taskBatch = [p \in P |-> <<>>]
    /\ idx = [p \in P |-> 1]
    /\ timer = [p \in P |-> "armed"]
    /\ result = [p \in P |-> ZeroResult]

\* a manager that started its workers without manager.wg.Add(1)
InitManagerNoAdd(P, cap) ==
    /\ taskQueue = <<>> /\ taskQueueClosed = FALSE
    /\ resultQueue = <<>> /\ resultQueueClosed = FALSE
    /\ queueCap = cap
    /\ shutdown = FALSE
    /\ wshutdown = [p \in P |-> FALSE]
    /\ wg = 0
    /\ sink = [c \in 0..MaxImages |-> <<>>]
    /\ nextExt = 0
    /\ lastSubmit = [task |-> 0, ret |-> "none", shut |-> FALSE]
    /\ spc = "idle" /\ sidx = 1
    /\ bpc = "idle" /\ bi = 1
    /\ imagePaths = <<>>
    /\ results = <<>>
    /\ submitErr = <<>>

\* state of the manager after NewVideoDetectorManager, with workers P and
\* queues of capacity cap; no caller has done anything yet
InitManager(P, cap) ==
    /\ taskQueue = <<>> /\ taskQueueClosed = FALSE
    /\ resultQueue = <<>> /\ resultQueueClosed = FALSE
    /\ queueCap = cap
    /\ shutdown = FALSE
    /\ wshutdown = [p \in P |-> FALSE]
    /\ wg = Cardinality(P)
    /\ sink = [c \in 0..MaxImages |-> <<>>]
    /\ nextExt = 0
    /\ lastSubmit = [task |-> 0, ret |-> "none", shut |-> FALSE]
    /\ spc = "idle" /\ sidx = 1
    /\ bpc = "idle" /\ bi = 1
    /\ imagePaths = <<>>
    /\ results = <<>>
    /\ submitErr = <<>>

(* ----------------- resizeWithLetterbox and processOutput ---------------- *)

\* the / of two ints: the quotient truncated toward zero
IntDiv(i, j) == Sign(i) * Sign(j) * (Abs(i) \div Abs(j))

FMin(x, y) == IF FLt(x, y) THEN x ELSE y

\* a scale taken from the larger of the two ratios
LetterboxScaleMax(targetSize_, width, height) ==
    IF FLt(FDiv(Float(targetSize_), Float(width)),
           FDiv(Float(targetSize_), Float(height)))
       THEN FDiv(Float(targetSize_), Float(height))
       ELSE FDiv(Float(targetSize_), Float(width))

\* resizeWithLetterbox: scale := math.Min(target/width, target/height)
LetterboxScale(targetSize_, width, height) ==
    FMin(FDiv(Float(targetSize_), Float(width)),
         FDiv(Float(targetSize_), Float(height)))

\* resizeWithLetterbox: the size of the canvas it returns, the rectangle of
\* the canvas it draws the resized image into, and the ScaleInfo
resizeWithLetterbox(width, height, targetSize_) ==
    LET scale == LetterboxScale(targetSize_, width, height)
        newWidth == Round(FMul(Float(width), scale))
        newHeight == Round(FMul(Float(height), scale))
        offsetX == IntDiv(targetSize_ - newWidth, 2)
        offsetY == IntDiv(targetSize_ - newHeight, 2)
    IN  [canvas |-> <<targetSize_, targetSize_>>,
         drawn |-> Rect(offsetX, offsetY, offsetX + newWidth, offsetY + newHeight),
         info |-> [ScaleX |-> scale, ScaleY |-> scale,
                   PadLeft |-> offsetX, PadTop |-> offsetY]]

\* the % of two ints: the remainder has the sign of the dividend
IntMod(i, j) == i - j * IntDiv(i, j)

\* resizeWithRectScaling: the size of the canvas it returns, the rectangle of
\* the canvas it draws the resized image into, and the ScaleInfo
resizeWithRectScaling(width, height, targetSize_, stride_) ==
    LET scale == LetterboxScale(targetSize_, width, height)
        unpadWidth == Round(FMul(Float(width), scale))
        unpadHeight == Round(FMul(Float(height), scale))
        dw == IntMod(targetSize_ - unpadWidth, stride_)
        dh == IntMod(targetSize_ - unpadHeight, stride_)
        finalWidth == unpadWidth + dw
        finalHeight == unpadHeight + dh
        offsetX == IntDiv(dw, 2)
        offsetY == IntDiv(dh, 2)
    IN  [canvas |-> <<finalWidth, finalHeight>>,
         drawn |-> Rect(offsetX, offsetY, offsetX + unpadWidth, offsetY + unpadHeight),
         info |-> [ScaleX |-> scale, ScaleY |-> scale,
                   PadLeft |-> offsetX, PadTop |-> offsetY]]

\* a clamp without the upper limit
clampFromBelow(value, min, max) == IF FLt(value, min) THEN min ELSE value

\* clamp
clamp(value, min, max) ==
    IF FLt(value, min) THEN min
    ELSE IF FLt(max, value) THEN max
    ELSE value

\* the first names of yoloClasses
yoloClasses == <<"person", "bicycle", "car", "motorcycle">>

\* processOutput, the loop over the classes from classIdx on: the largest
\* class score found and its class
RECURSIVE bestClass(_, _, _, _)
bestClass(cls, classIdx, maxClsProb, classID) ==
    IF classIdx > Len(cls) THEN [maxClsProb |-> maxClsProb, classID |-> classID]
    ELSE IF FLt(maxClsProb, cls[classIdx])
            THEN bestClass(cls, classIdx + 1, cls[classIdx], classIdx)
            ELSE bestClass(cls, classIdx + 1, maxClsProb, classID)

\* a confidence test that also discards a confidence equal to the threshold
DiscardedUpTo(finalConf, confThreshold_) == FLe(finalConf, confThreshold_)

\* processOutput: if finalConf < confThreshold { continue }
Discarded(finalConf, confThreshold_) == FLt(finalConf, confThreshold_)

\* an inverse mapping that does not subtract the pads
anchorBoxNoPad(a, width, height, info) ==
    LET best == bestClass(a.cls, 1, Float(0), 1)
        origCenterX == FDiv(a.xc, info.ScaleX)
        origCenterY == FDiv(a.yc, info.ScaleY)
        origW == FDiv(a.w, info.ScaleX)
        origH == FDiv(a.h, info.ScaleY)
        half == Frac(1, 2)
    IN  [label |-> yoloClasses[best.classID],
         confidence |-> best.maxClsProb,
         x1 |-> clamp(FSub(origCenterX, FMul(origW, half)), Float(0), Float(width)),
         y1 |-> clamp(FSub(origCenterY, FMul(origH, half)), Float(0), Float(height)),
         x2 |-> clamp(FAdd(origCenterX, FMul(origW, half)), Float(0), Float(width)),
         y2 |-> clamp(FAdd(origCenterY, FMul(origH, half)), Float(0), Float(height))]

\* processOutput: the box of an anchor mapped back to the original image and
\* clamped to it
anchorBox(a, width, height, info) ==
    LET best == bestClass(a.cls, 1, Float(0), 1)
        origCenterX == FDiv(FSub(a.xc, Float(info.PadLeft)), info.ScaleX)
        origCenterY == FDiv(FSub(a.yc, Float(info.PadTop)), info.ScaleY)
        origW == FDiv(a.w, info.ScaleX)
        origH == FDiv(a.h, info.ScaleY)
        half == Frac(1, 2)
    IN  [label |-> yoloClasses[best.classID],
         confidence |-> best.maxClsProb,
         x1 |-> clamp(FSub(origCenterX, FMul(origW, half)), Float(0), Float(width)),
         y1 |-> clamp(FSub(origCenterY, FMul(origH, half)), Float(0), Float(height)),
         x2 |-> clamp(FAdd(origCenterX, FMul(origW, half)), Float(0), Float(width)),
         y2 |-> clamp(FAdd(origCenterY, FMul(origH, half)), Float(0), Float(height))]

\* processOutput, the body of the loop over the anchors: the anchor adds its
\* box to boundingBoxes unless its confidence is below the threshold or its
\* clamped box has no width or no height
anchorKept(a, width, height, confThreshold_, info) ==
    /\ ~Discarded(bestClass(a.cls, 1, Float(0), 1).maxClsProb, confThreshold_)
    /\ ~FLe(anchorBox(a, width, height, info).x2, anchorBox(a, width, height, info).x1)
    /\ ~FLe(anchorBox(a, width, height, info).y2, anchorBox(a, width, height, info).y1)

\* processOutput, the loop over the anchors from idx on
RECURSIVE boundingBoxes(_, _, _, _, _, _)
boundingBoxes(out, idx_, width, height, confThreshold_, info) ==
    IF idx_ > Len(out) THEN <<>>
    ELSE (IF anchorKept(out[idx_], width, height, confThreshold_, info)
             THEN <<anchorBox(out[idx_], width, height, info)>>
             ELSE <<>>)
         \o boundingBoxes(out, idx_ + 1, width, height, confThreshold_, info)

(* ----------------- inputs of the detection functions -------------------- *)

\* the zero boundingBox
ZeroBox == Box("", Float(0), 0, 0, 0, 0)

\* IouSpec: boxes with corners on the grid of half pixels up to MaxCoord,
\* among them boxes without width or height
IouBoxes ==
    {Box("car", Frac(9, 10), x1, y1, x2, y2) :
        <<x1, y1, x2, y2>> \in
            {c \in (0..MaxCoord) \X (0..MaxCoord) \X (0..MaxCoord) \X (0..MaxCoord) :
                c[1] <= c[3] /\ c[2] <= c[4]}}

\* NmsSpec: the corners, in half pixels, of the boxes handed to the
\* suppression: (0,0,10,10) and (1,1,11,11), which overlap with an IoU of
\* 81/119
NmsCorners == {<<0, 0, 20, 20>>, <<2, 2, 22, 22>>}
NmsLabels == {"car", "person"}
NmsConfidences == {Frac(9, 10), Frac(8, 10)}
NmsBoxes ==
    {Box(l, c, g[1], g[2], g[3], g[4]) :
        <<l, c, g>> \in NmsLabels \X NmsConfidences \X NmsCorners}
IouThresholds == {Frac(0, 1), Frac(1, 2), Frac(1, 1)}

\* the package variable stride
DefaultStride == 32

\* no detection function has been called
NoImage ==
    /\ originalWidth = 0 /\ originalHeight = 0 /\ targetSize = 0
    /\ useRectScaling = FALSE /\ stride = DefaultStride
    /\ resized = resizeWithLetterbox(1, 1, 0)
    /\ output = <<>> /\ confThreshold = Float(0)
NoIou == b = ZeroBox /\ other = ZeroBox /\ iouVal = Float(0) /\ iouRev = Float(0)
NoNms ==
    /\ input = <<>> /\ boxes = <<>> /\ selected = <<>> /\ first = <<>>
    /\ iouThreshold = Float(0)
\* no goroutine has called processOutput: boundingBoxPool is empty
NoBoxPool ==
    /\ heap = <<>>
    /\ boundingBoxPool = <<>>
    /\ ppc = <<>> /\ tensor = <<>> /\ anchorIdx = <<>>
    /\ boxPtrs = <<>> /\ detections = <<>>
    /\ ncalls = 0
NoDetection == NoIou /\ NoNms /\ NoImage /\ dpc = "idle" /\ NoBoxPool

\* no pool and no manager has been constructed
NoPipeline ==
    /\ sessions = <<>> /\ live = {} /\ maxSize = 0
    /\ sessionsClosed = FALSE /\ activeSessions = 0
    /\ InitProcs({}, "idle")
    /\ InitManager({}, 0)

(* ------------- IouSpec: calls of boundingBox.iou on two boxes ----------- *)

IouInit ==
    /\ NoPipeline /\ NoNms /\ NoImage /\ NoBoxPool
    /\ b \in IouBoxes /\ other \in IouBoxes
    /\ iouVal = Float(0) /\ iouRev = Float(0)
    /\ dpc = "input"

\* b.iou(other) and other.iou(b)
CallIou ==
    /\ dpc = "input"
    /\ iouVal' = iou(b, other)
    /\ iouRev' = iou(other, b)
    /\ dpc' = "iou"
    /\ UNCHANGED <<b, other, nmsVars, imgVars>>
    /\ UNCHANGED boxPoolVars
    /\ UNCHANGED <<poolVars, mgrVars, procVars, workerVars, sink, callerVars>>

IouNext == CallIou

IouSpec == IouInit /\ [][IouNext]_vars

(* ------ NmsSpec: calls of nonMaxSuppression and nonMaxSuppressionP ------ *)

NmsInit ==
    /\ NoPipeline /\ NoIou /\ NoImage /\ NoBoxPool
    /\ input \in UNION {[1..n -> NmsBoxes] : n \in 0..MaxBoxes}
    /\ boxes = input
    /\ iouThreshold \in IouThresholds
    /\ selected = <<>> /\ first = <<>>
    /\ dpc = "input"

\* nonMaxSuppression(boxes, iouThreshold)
CallNms ==
    /\ dpc = "input"
    /\ \E s \in SortSlice(boxes) :
          /\ boxes' = s
          /\ selected' = nonMaxSuppression(s, iouThreshold)
    /\ dpc' = "done"
    /\ UNCHANGED <<input, iouThreshold, first, iouVars, imgVars>>
    /\ UNCHANGED boxPoolVars
    /\ UNCHANGED <<poolVars, mgrVars, procVars, workerVars, sink, callerVars>>

\* nonMaxSuppression called on the slice that nonMaxSuppression returned
CallNmsAgain ==
    /\ dpc = "done"
    /\ first' = selected
    /\ \E s \in SortSlice(selected) :
          /\ boxes' = s
          /\ selected' = nonMaxSuppression(s, iouThreshold)
    /\ dpc' = "twice"
    /\ UNCHANGED <<input, iouThreshold, iouVars, imgVars>>
    /\ UNCHANGED boxPoolVars
    /\ UNCHANGED <<poolVars, mgrVars, procVars, workerVars, sink, callerVars>>

\* processOutput: sort.Slice, then nonMaxSuppressionP(boundingBoxes, iouThresh)
CallNmsP ==
    /\ dpc = "input"
    /\ \E s \in SortSlice(boxes) :
          /\ boxes' = s
          /\ selected' = nonMaxSuppressionP(s, iouThreshold)
    /\ dpc' = "doneP"
    /\ UNCHANGED <<input, iouThreshold, first, iouVars, imgVars>>
    /\ UNCHANGED boxPoolVars
    /\ UNCHANGED <<poolVars, mgrVars, procVars, workerVars, sink, callerVars>>

NmsNext == CallNms \/ CallNmsAgain \/ CallNmsP

NmsSpec == NmsInit /\ [][NmsNext]_vars

(* ---- DetectSpec: prepareInput, Session.Run and processOutput on an image ---- *)

\* width and height of the images
ImageSizes == {<<1080, 810>>, <<810, 1080>>, <<640, 640>>}
\* values of the -size flag
TargetSizes == {640}
\* values of the -conf flag and of the -iou flag
ConfThresholds == {Frac(1, 2)}
DetectIouThresholds == {Frac(7, 10)}

\* the class scores and the boxes (xc, yc, w, h), in pixels of the model
\* input, that the model writes for an anchor: a box in the middle, a box
\* across the right edge and a box in the top left corner
ClassScores == {Frac(49, 100), Frac(1, 2)}
AnchorShapes == {<<320, 320, 100, 100>>, <<630, 320, 100, 50>>, <<10, 10, 40, 40>>}
Anchors ==
    {[xc |-> Float(g[1]), yc |-> Float(g[2]), w |-> Float(g[3]), h |-> Float(g[4]),
      cls |-> c] :
        <<g, c>> \in AnchorShapes \X [1..NumClasses -> ClassScores]}

DetectInit ==
    /\ NoPipeline /\ NoIou /\ NoBoxPool
    /\ \E size \in ImageSizes :
          originalWidth = size[1] /\ originalHeight = size[2]
    /\ targetSize \in TargetSizes
    /\ useRectScaling = FALSE /\ stride = DefaultStride
    /\ resized = resizeWithLetterbox(1, 1, 0)
    /\ output = <<>>
    /\ confThreshold \in ConfThresholds
    /\ iouThreshold \in DetectIouThresholds
    /\ input = <<>> /\ boxes = <<>> /\ selected = <<>> /\ first = <<>>
    /\ dpc = "loaded"

\* prepareInput: resizeWithRectScaling(pic, inputSize, stride) when the -rect
\* flag is set, otherwise resizeWithLetterbox(pic, inputSize)
PrepareInput ==
    /\ dpc = "loaded"
    /\ resized' = IF useRectScaling
                     THEN resizeWithRectScaling(originalWidth, originalHeight,
                                                targetSize, stride)
                     ELSE resizeWithLetterbox(originalWidth, originalHeight,
                                              targetSize)
    /\ dpc' = "prepared"
    /\ UNCHANGED <<originalWidth, originalHeight, targetSize, useRectScaling,
                   stride, output, confThreshold>>
    /\ UNCHANGED <<iouVars, nmsVars>>
    /\ UNCHANGED boxPoolVars
    /\ UNCHANGED <<poolVars, mgrVars, procVars, workerVars, sink, callerVars>>

\* Session.Run writes the output tensor; processOutput collects the boxes,
\* sorts them and returns what nonMaxSuppressionP selects
ProcessOutput ==
    /\ dpc = "prepared"
    /\ output' \in [1..NumAnchors -> Anchors]
    /\ input' = boundingBoxes(output', 1, originalWidth, originalHeight,
                              confThreshold, resized.info)
    /\ \E s \in SortSlice(input') :
          /\ boxes' = s
          /\ selected' = nonMaxSuppressionP(s, iouThreshold)
    /\ dpc' = "detected"
    /\ UNCHANGED <<originalWidth, originalHeight, targetSize, useRectScaling,
                   stride, resized, confThreshold>>
    /\ UNCHANGED <<iouThreshold, first, iouVars>>
    /\ UNCHANGED boxPoolVars
    /\ UNCHANGED <<poolVars, mgrVars, procVars, workerVars, sink, callerVars>>

DetectNext == PrepareInput \/ ProcessOutput

DetectSpec == DetectInit /\ [][DetectNext]_vars

(* -- RoundTripSpec: a box of the image seen by the model and mapped back -- *)

\* the coordinates, in half pixels, of the corners of the boxes drawn in an
\* image that is dim pixels wide or high: the two edges, half a pixel from
\* each edge and a point inside
InsideCoords(dim) == {0, 1, 2 * (dim \div 3) + 1, 2 * dim - 1, 2 * dim}

\* the boxes that lie inside an image of width x height
InsideBoxes(width, height) ==
    {Box(yoloClasses[1], Frac(9, 10), x1, y1, x2, y2) :
        <<x1, y1, x2, y2>> \in
            {c \in InsideCoords(width) \X InsideCoords(height)
                     \X InsideCoords(width) \X InsideCoords(height) :
                c[1] < c[3] /\ c[2] < c[4]}}

\* the anchor the model writes for a box of the image that resizeWithLetterbox
\* drew at PadLeft, PadTop with the scale of info: its corners are at
\* x * ScaleX + PadLeft and y * ScaleY + PadTop, and the anchor has their
\* centre, width and height and the confidence as the score of class 1
forward(bb, info) ==
    LET mx1 == FAdd(FMul(bb.x1, info.ScaleX), Float(info.PadLeft))
        my1 == FAdd(FMul(bb.y1, info.ScaleY), Float(info.PadTop))
        mx2 == FAdd(FMul(bb.x2, info.ScaleX), Float(info.PadLeft))
        my2 == FAdd(FMul(bb.y2, info.ScaleY), Float(info.PadTop))
    IN  [xc |-> FMul(FAdd(mx1, mx2), Frac(1, 2)),
         yc |-> FMul(FAdd(my1, my2), Frac(1, 2)),
         w |-> FSub(mx2, mx1), h |-> FSub(my2, my1),
         cls |-> [c \in 1..NumClasses |->
                     IF c = 1 THEN bb.confidence ELSE Float(0)]]

RoundTripInit ==
    /\ NoPipeline /\ NoBoxPool
    /\ \E size \in ImageSizes :
          /\ originalWidth = size[1] /\ originalHeight = size[2]
          /\ b \in InsideBoxes(size[1], size[2])
    /\ other = ZeroBox /\ iouVal = Float(0) /\ iouRev = Float(0)
    /\ targetSize \in TargetSizes
    /\ useRectScaling = FALSE /\ stride = DefaultStride
    /\ resized = resizeWithLetterbox(1, 1, 0)
    /\ output = <<>>
    /\ confThreshold \in ConfThresholds
    /\ iouThreshold \in DetectIouThresholds
    /\ input = <<>> /\ boxes = <<>> /\ selected = <<>> /\ first = <<>>
    /\ dpc = "loaded"

\* Session.Run writes the anchor of the box b; processOutput maps it back
ProcessForwarded ==
    /\ dpc = "prepared"
    /\ output' = <<forward(b, resized.info)>>
    /\ input' = boundingBoxes(output', 1, originalWidth, originalHeight,
                              confThreshold, resized.info)
    /\ \E s \in SortSlice(input') :
          /\ boxes' = s
          /\ selected' = nonMaxSuppressionP(s, iouThreshold)
    /\ dpc' = "detected"
    /\ UNCHANGED <<originalWidth, originalHeight, targetSize, useRectScaling,
                   stride, resized, confThreshold>>
    /\ UNCHANGED <<iouThreshold, first, iouVars>>
    /\ UNCHANGED boxPoolVars
    /\ UNCHANGED <<poolVars, mgrVars, procVars, workerVars, sink, callerVars>>

RoundTripNext == PrepareInput \/ ProcessForwarded

RoundTripSpec == RoundTripInit /\ [][RoundTripNext]_vars

(* ---- GeometrySpec: main with its flags, initSession and prepareInput ---- *)

\* widths and heights of the images
RectDims == {33, 100, 500, 640, 810, 1080}
\* values of the -size flag: multiples of the stride and one that is not
RectTargetSizes == {320, 500, 640}

GeometryInit ==
    /\ NoPipeline /\ NoIou /\ NoNms /\ NoBoxPool
    /\ originalWidth \in RectDims /\ originalHeight \in RectDims
    /\ targetSize \in RectTargetSizes
    /\ useRectScaling \in BOOLEAN
    /\ stride = DefaultStride
    /\ resized = resizeWithLetterbox(1, 1, 0)
    /\ output = <<>>
    /\ confThreshold \in ConfThresholds
    /\ dpc = "flags"

\* main: flag.Parse() and the printing of the flags; initSession then makes
\* the input tensor of the fixed shape (batch, 3, size, size).  Neither looks
\* at the -rect flag.
Startup ==
    /\ dpc = "flags"
    /\ dpc' = "loaded"
    /\ UNCHANGED <<iouVars, nmsVars, imgVars>>
    /\ UNCHANGED boxPoolVars
    /\ UNCHANGED <<poolVars, mgrVars, procVars, workerVars, sink, callerVars>>

GeometryNext == Startup \/ PrepareInput

GeometrySpec == GeometryInit /\ [][GeometryNext]_vars

(* --- BoxPoolSpec: goroutines calling processOutput on boundingBoxPool ---- *)

\* the goroutines that run processOutput: two workers, or the goroutine of
\* detectObjects
Detectors == {1, 2}
\* the calls of processOutput they make in all: one each, or two by one
MaxCalls == Cardinality(Detectors)

\* the image of every call and its ScaleInfo: 640x640 at a target of 640
PoolImage == <<640, 640>>
PoolInfo == resizeWithLetterbox(PoolImage[1], PoolImage[2], 640).info
PoolConfThreshold == Frac(1, 2)
PoolIouThreshold == Frac(7, 10)

\* the anchors of the output tensors: a person in the middle, a person in
\* the top left corner and a box below the confidence threshold
PoolAnchors ==
    {[xc |-> Float(320), yc |-> Float(320), w |-> Float(100), h |-> Float(100),
      cls |-> [c \in 1..NumClasses |-> IF c = 1 THEN Frac(1, 2) ELSE Float(0)]],
     [xc |-> Float(30), yc |-> Float(30), w |-> Float(40), h |-> Float(40),
      cls |-> [c \in 1..NumClasses |-> IF c = 1 THEN Frac(1, 2) ELSE Float(0)]],
     [xc |-> Float(320), yc |-> Float(320), w |-> Float(100), h |-> Float(100),
      cls |-> [c \in 1..NumClasses |-> Frac(49, 100)]]}

BoxPoolInit ==
    /\ NoPipeline /\ NoIou /\ NoNms /\ NoImage /\ dpc = "idle"
    /\ heap = <<>>
    /\ boundingBoxPool = <<>>
    /\ ppc = [d \in Detectors |-> "idle"]
    /\ tensor = [d \in Detectors |-> <<>>]
    /\ anchorIdx = [d \in Detectors |-> 1]
    /\ boxPtrs = [d \in Detectors |-> <<>>]
    /\ detections = [d \in Detectors |-> <<>>]
    /\ ncalls = 0

\* Session.Run has written an output tensor and the goroutine calls
\* processOutput: boundingBoxes := make([]*boundingBox, 0, 100)
CallProcessOutput(d) ==
    /\ ppc[d] \in {"idle", "returned"}
    /\ ncalls < MaxCalls
    /\ ncalls' = ncalls + 1
    /\ tensor' \in {[tensor EXCEPT ![d] = out] : out \in [1..NumAnchors -> PoolAnchors]}
    /\ anchorIdx' = [anchorIdx EXCEPT ![d] = 1]
    /\ boxPtrs' = [boxPtrs EXCEPT ![d] = <<>>]
    /\ detections' = [detections EXCEPT ![d] = <<>>]
    /\ ppc' = [ppc EXCEPT ![d] = "anchors"]
    /\ UNCHANGED <<heap, boundingBoxPool>>
    /\ UNCHANGED <<iouVars, nmsVars, imgVars, dpc>>
    /\ UNCHANGED <<poolVars, mgrVars, procVars, workerVars, sink, callerVars>>

\* boundingBoxPool.Get(): an object that is in the pool, or, as Get may find
\* the pool empty at any time, the object that New makes
GetChoices ==
    {o \in 1..Len(heap) : boundingBoxPool[o] > 0} \cup {Len(heap) + 1}

\* processOutput, one iteration of the loop over the anchors: an anchor that
\* is kept takes an object from boundingBoxPool, writes its box into it and
\* appends the pointer to boundingBoxes
NextAnchor(d) ==
    /\ ppc[d] = "anchors"
    /\ LET a == tensor[d][anchorIdx[d]]
           box == anchorBox(a, PoolImage[1], PoolImage[2], PoolInfo)
       IN  IF anchorKept(a, PoolImage[1], PoolImage[2], PoolConfThreshold, PoolInfo)
              THEN \E o \in GetChoices :
                      /\ heap' = IF o > Len(heap) THEN Append(heap, box)
                                  ELSE [heap EXCEPT ![o] = box]
                      /\ boundingBoxPool' =
                            IF o > Len(heap) THEN Append(boundingBoxPool, 0)
                            ELSE [boundingBoxPool EXCEPT ![o] = @ - 1]
                      /\ boxPtrs' = [boxPtrs EXCEPT ![d] = Append(@, o)]
              ELSE UNCHANGED <<heap, boundingBoxPool, boxPtrs>>
    /\ anchorIdx' = [anchorIdx EXCEPT ![d] = @ + 1]
    /\ ppc' = [ppc EXCEPT ![d] =
                  IF anchorIdx[d] = Len(tensor[d]) THEN "suppress" ELSE "anchors"]
    /\ UNCHANGED <<tensor, detections, ncalls>>
    /\ UNCHANGED <<iouVars, nmsVars, imgVars, dpc>>
    /\ UNCHANGED <<poolVars, mgrVars, procVars, workerVars, sink, callerVars>>

\* processOutput: sort.Slice(boundingBoxes, ...) and
\* nonMaxSuppressionP(boundingBoxes, iouThresh), which copies the boxes it
\* selects out of their objects and puts objects back into boundingBoxPool
SortAndSuppress(d) ==
    /\ ppc[d] = "suppress"
    /\ \E sorted \in SortSlice([k \in 1..Len(boxPtrs[d]) |->
                                   [ptr |-> boxPtrs[d][k],
                                    confidence |-> heap[boxPtrs[d][k]].confidence]]) :
          LET bs == [k \in 1..Len(sorted) |-> heap[sorted[k].ptr]]
              puts == nmsPuts(bs, [j \in 1..Len(bs) |-> FALSE], 1,
                              [j \in 1..Len(bs) |-> 0], PoolIouThreshold)
          IN  /\ boxPtrs' = [boxPtrs EXCEPT ![d] =
                                [k \in 1..Len(sorted) |-> sorted[k].ptr]]
              /\ detections' = [detections EXCEPT ![d] =
                                   nonMaxSuppressionP(bs, PoolIouThreshold)]
              /\ boundingBoxPool' =
                    [o \in 1..Len(heap) |->
                        boundingBoxPool[o]
                        + Cardinality({k \in 1..Len(sorted) :
                                          sorted[k].ptr = o /\ puts[k] >= 1})
                        + Cardinality({k \in 1..Len(sorted) :
                                          sorted[k].ptr = o /\ puts[k] >= 2})]
    /\ ppc' = [ppc EXCEPT ![d] = "returned"]
    /\ UNCHANGED <<heap, tensor, anchorIdx, ncalls>>
    /\ UNCHANGED <<iouVars, nmsVars, imgVars, dpc>>
    /\ UNCHANGED <<poolVars, mgrVars, procVars, workerVars, sink, callerVars>>

BoxPoolNext ==
    \E d \in Detectors :
        \/ CallProcessOutput(d)
        \/ NextAnchor(d)
        \/ SortAndSuppress(d)

BoxPoolSpec == BoxPoolInit /\ [][BoxPoolNext]_vars

(* -------- PoolSpec: goroutines calling GetSession and PutSession -------- *)

PoolInit ==
    /\ InitPool(PoolMaxSize)
    /\ InitProcs(1..NumCallers, "caller")
    /\ InitManager({}, 0)
    /\ NoDetection

PoolNext == (\E p \in Procs : CallerStep(p)) /\ UNCHANGED detVars

PoolSpec == PoolInit /\ [][PoolNext]_vars

(* - ManagerPoolSpec: the workers of a manager, each in processTask, on the - *)
(* - pool that NewVideoDetectorManager made for them                        - *)

\* every worker calls GetSession and, when it got a session, PutSession, as
\* processTask does, again and again and at any pace
ManagerPoolInit ==
    /\ InitPool(maxSessions)
    /\ InitProcs(Workers, "caller")
    /\ InitManager({}, 0)
    /\ NoDetection

ManagerPoolSpec == ManagerPoolInit /\ [][PoolNext]_vars

(* ---- Spec: the manager used through SubmitTask, GetResult and Stop ----- *)

Init ==
    /\ InitPool(maxSessions)
    /\ InitProcs(Workers, "collect")
    /\ InitManager(Workers, QueueSize)
    /\ NoDetection

Next ==
    \/ \E w \in Procs : WorkerStep(w) /\ UNCHANGED detVars
    \/ ExtSubmit /\ UNCHANGED detVars
    \/ ConsumeResult /\ UNCHANGED detVars
    \/ StopStep /\ UNCHANGED detVars

Spec == Init /\ [][Next]_vars

(* --- BatchSpec: ProcessImageBatch as ConcurrentBatchProcessImages runs it --- *)

\* ConcurrentBatchProcessImages defers manager.Stop() until ProcessImageBatch
\* has returned: no shutdown is signalled while the batch runs
BatchNext ==
    \/ \E w \in Procs : RunningStep(w) /\ UNCHANGED detVars
    \/ BatchStep /\ UNCHANGED detVars

BatchSpec == Init /\ [][BatchNext]_vars

(* -- QuietSpec: no shutdown and nobody reads the results; fair workers --- *)

QuietNext ==
    \/ \E w \in Procs : RunningStep(w) /\ UNCHANGED detVars
    \/ ExtSubmit /\ UNCHANGED detVars

\* the Go scheduler runs every goroutine that can take a step, and a timer
\* that a select waits on fires
QuietSpec ==
    /\ Init
    /\ [][QuietNext]_vars
    /\ \A w \in Workers : WF_vars(RunningStep(w) /\ UNCHANGED detVars)

(* --- StopSpec: Stop on a manager whose results nobody reads; fair workers --- *)

StopNext ==
    \/ \E w \in Procs : WorkerStep(w) /\ UNCHANGED detVars
    \/ ExtSubmit /\ UNCHANGED detVars
    \/ StopStep /\ UNCHANGED detVars

\* the Go scheduler runs every goroutine that can take a step, a timer that
\* a select waits on fires, and a select does not pass over a ready case for
\* ever; the goroutine that called Stop runs as well.  Callers of SubmitTask
\* may stop at any time.
StopSpec ==
    /\ Init
    /\ [][StopNext]_vars
    /\ \A w \in Workers : WF_vars(WorkerStep(w) /\ UNCHANGED detVars)
    /\ WF_vars(StopStep /\ UNCHANGED detVars)

(* ------------------------------- claims --------------------------------- *)

\* C1 (PoolSpec): the active-session counter never exceeds maxSize, whatever
\* the number of goroutines calling GetSession and PutSession.
C1_ActiveWithinMaxSize == activeSessions <= maxSize

\* C2 (Spec): once the collection timer of a worker has elapsed, the worker
\* has left the collection loop with whatever it holds: no worker sits in the
\* loop with a spent timer and a task in its batch.
C2_TimerEndsCollecting ==
    \A w \in Procs :
        (pc[w] = "collect" /\ timer[w] = "drained") => taskBatch[w] = <<>>

\* C3 (Spec): SubmitTask never blocks.  A caller can always complete its call,
\* and a call made while the manager is not shut down returns the queue-full
\* error and leaves the queue as it was when the queue is at capacity, and
\* otherwise appends its task and returns ok.
C3_SubmitNeverBlocks ==
    /\ []((nextExt < MaxExt /\ lastSubmit.ret # "panic") => ENABLED ExtSubmit)
    /\ [][(lastSubmit' # lastSubmit /\ ~shutdown) =>
            IF Len(taskQueue) >= queueCap
               THEN /\ lastSubmit'.ret = "full"
                    /\ taskQueue' = taskQueue
               ELSE /\ lastSubmit'.ret = "ok"
                    /\ Len(taskQueue') = Len(taskQueue) + 1
                    /\ SubSeq(taskQueue', 1, Len(taskQueue)) = taskQueue
                    /\ taskQueue'[Len(taskQueue')].id = lastSubmit'.task]_vars

\* C3 witness: a call on a full queue of a running manager returned queue-full
C3_Witness ==
    /\ lastSubmit.ret = "full"
    /\ ~lastSubmit.shut
    /\ Len(taskQueue) = queueCap
    /\ queueCap > 0

\* C4 (Spec): a SubmitTask call made after Stop has signalled shutdown fails
\* with the manager-closed error.
C4_RejectsAfterShutdown == lastSubmit.shut => lastSubmit.ret = "closed"

\* C5 (BatchSpec): ProcessImageBatch called with k image paths returns k
\* results, and the result at index i carries the image path of input i.
C5_BatchComplete ==
    bpc = "returned" =>
        /\ Len(results) = Len(imagePaths)
        /\ \A i \in 1..Len(imagePaths) : results[i].ImagePath = imagePaths[i]

\* C5 witness: a batch has returned in which a later item was completed by a
\* worker while an earlier item timed out
C5_Witness ==
    /\ bpc = "returned"
    /\ \E i, j \in 1..Len(results) :
          /\ i < j
          /\ results[i].Error = "timeout"
          /\ results[j].Error \in TaskOutcomes

\* C6 (BatchSpec): the result ProcessImageBatch returns for an item whose
\* submission failed is that submission error.
C6_SubmitErrorIsResult ==
    bpc = "returned" =>
        \A i \in 1..Len(results) :
            submitErr[i] # "none" => results[i].Error = SubmitError(submitErr[i])

\* C7 (Spec): a worker that has terminated holds no task that it took from
\* the task queue and did not process.
C7_DrainedBeforeExit ==
    \A w \in Procs : pc[w] = "done" => taskBatch[w] = <<>>

\* C8 (PoolSpec): a session that a goroutine has checked out is held by no
\* other goroutine and is not in the idle store.
C8_ExclusiveCheckout ==
    \A p \in Procs :
        held[p] # NoSession =>
            /\ \A q \in Procs \ {p} : held[q] # held[p]
            /\ \A i \in 1..Len(sessions) : sessions[i] # held[p]

\* C8 witness: two goroutines use a session each at the same time
C8_Witness ==
    \E p, q \in Procs : p # q /\ pc[p] = "using" /\ pc[q] = "using"

\* Worker.run: worker w has the result of a task and has not finished the two
\* publications of it
Publishing(w) == TaskReturned(w) \/ pc[w] = "pub_queue"

\* C9 (QuietSpec): a worker that has a result to publish eventually is done
\* with both publications of it, although nobody reads the sink or the
\* result queue.
C9_PublishBounded ==
    \A w \in Workers : Publishing(w) ~> ~Publishing(w)

\* C9 witness: a worker is at its third task after the second one was
\* published to a sink and a result queue that the first one had filled
C9_Witness ==
    \E w \in Workers :
        /\ pc[w] = "get_select"
        /\ idx[w] = 3
        /\ taskBatch[w][1].Callback = ExtSink
        /\ taskBatch[w][2].Callback = ExtSink
        /\ Len(sink[ExtSink]) = SinkCap
        /\ Len(resultQueue) = queueCap

\* the positions inside GetSession
InGetSession(p) ==
    pc[p] \in {"get_select", "get_inc", "create_check", "create_sleep",
               "create_init", "create_inc"}

\* C10 (PoolSpec): GetSession never waits for another goroutine and loads the
\* counter at most twice; it takes an idle session when there is one; it
\* creates a session only after loading a count below maxSize; it sleeps only
\* after loading a count at maxSize, and returns the exhausted error only
\* after two such loads.
C10_GetSessionBounded ==
    /\ [](\A p \in Procs :
            /\ InGetSession(p) => ENABLED PoolStep(p)
            /\ Len(reads[p]) <= 2
            /\ pc[p] \in {"create_init", "create_inc"} =>
                  /\ reads[p] # <<>>
                  /\ reads[p][Len(reads[p])] < maxSize
            /\ pc[p] = "create_sleep" =>
                  /\ Len(reads[p]) = 1
                  /\ reads[p][1] >= maxSize
            /\ (pc[p] = "get_ret" /\ getErr[p] = ErrExhausted) =>
                  /\ Len(reads[p]) = 2
                  /\ reads[p][1] >= maxSize
                  /\ reads[p][2] >= maxSize)
    /\ [][\A p \in Procs :
            (pc[p] = "get_select" /\ pc'[p] # "get_select" /\ sessions # <<>>) =>
                /\ pc'[p] = "get_inc"
                /\ held'[p] = Head(sessions)
                /\ reads'[p] = <<>>]_vars

\* C10 witness: a GetSession call returned the exhausted error
C10_Witness ==
    \E p \in Procs : pc[p] = "get_ret" /\ getErr[p] = ErrExhausted

\* processTask: the errors it attaches to a result
TaskFailures == {"session", "decode", "prepare", "infer"}

\* C11 (QuietSpec): a per-task failure never terminates the worker.  When
\* processTask returns, the result carries the path of its task, and the
\* session error when GetSession had failed, and the worker goes on to
\* publish; a failed result is sent to the callback and to the result queue
\* whenever they have room; and the worker then is back at taking or
\* processing a further task.
C11_TaskFailureContained ==
    /\ [](\A w \in Workers : pc[w] \notin {"panic", "done"})
    /\ [][\A w \in Workers :
            (pc[w] = "get_ret" /\ pc'[w] # "get_ret") =>
                /\ result'[w].ImagePath = CurTask(w).ImagePath
                /\ (getErr[w] # "none") = (result'[w].Error = "session")
                /\ result'[w].Error \in TaskFailures \cup {"none"}
                /\ pc'[w] \in {"task_ret", "put_dec"}]_vars
    /\ [][\A w \in Workers :
            (/\ pc[w] \in {"task_ret", "put_ret"}
             /\ pc'[w] # pc[w]
             /\ result[w].Error \in TaskFailures) =>
                /\ pc'[w] = "pub_queue"
                /\ result'[w] = result[w]
                /\ (CurTask(w).Callback # NilSink
                    /\ Len(sink[CurTask(w).Callback]) < SinkCap) =>
                       sink'[CurTask(w).Callback] =
                           Append(sink[CurTask(w).Callback], result[w])]_vars
    /\ [][\A w \in Workers :
            (/\ pc[w] = "pub_queue"
             /\ pc'[w] # pc[w]
             /\ result[w].Error \in TaskFailures) =>
                /\ pc'[w] \in {"collect", "get_select"}
                /\ Len(resultQueue) < queueCap =>
                       resultQueue' = Append(resultQueue, result[w])]_vars
    /\ \A w \in Workers :
          (/\ pc[w] \in {"task_ret", "put_dec", "put_push", "put_ret",
                         "pub_queue"}
           /\ result[w].Error \in TaskFailures)
              ~> (pc[w] \in {"collect", "get_select"})

\* C11 witness: a worker is at the second task of its batch after the result
\* of the first, which failed, went to the result queue
C11_Witness ==
    \E w \in Workers :
        /\ idx[w] = 2
        /\ pc[w] \in {"get_select", "get_inc", "create_check", "create_init"}
        /\ \E i \in 1..Len(resultQueue) :
              /\ resultQueue[i].Error \in TaskFailures
              /\ resultQueue[i].ImagePath = taskBatch[w][1].ImagePath

\* C12 (PoolSpec): PutSession decrements the active count by one and goes on
\* to the idle store with a healthy session; it retains the session when the
\* idle store has room and destroys it otherwise; the idle store never holds
\* more than maxSize sessions.
C12_PutSessionBounded ==
    /\ [](Len(sessions) <= maxSize)
    /\ [][\A p \in Procs :
            (pc[p] = "put_dec" /\ pc'[p] # "put_dec") =>
                /\ activeSessions' = activeSessions - 1
                /\ held[p] # NoSession => pc'[p] = "put_push"]_vars
    /\ [][\A p \in Procs :
            (pc[p] = "put_push" /\ pc'[p] # "put_push") =>
                IF Len(sessions) < maxSize
                   THEN /\ sessions' = Append(sessions, held[p])
                        /\ held[p] \in live'
                   ELSE /\ sessions' = sessions
                        /\ held[p] \notin live']_vars

\* C12 witness: the idle store is full and a session that was put back when
\* it was full is gone (initSession numbers sessions without gaps)
C12_Witness ==
    /\ Len(sessions) = maxSize
    /\ \E s \in 1..(NumCallers + PoolMaxSize) :
          s \notin live /\ \E r \in live : r > s

\* the boxes (0,0,10,10) with confidence 0.9 and (1,1,11,11) with confidence
\* 0.8, both labelled car
ExampleA == Box("car", Frac(9, 10), 0, 0, 20, 20)
ExampleB == Box("car", Frac(8, 10), 2, 2, 22, 22)

\* the boxes of bs at the indices in K, in the order of bs
BoxesAt(bs, K) ==
    LET f == CHOOSE g \in [1..Cardinality(K) -> K] :
                 \A k, l \in 1..Cardinality(K) : k < l => g[k] < g[l]
    IN  [k \in 1..Cardinality(K) |-> bs[f[k]]]

\* C13 (NmsSpec): the suppression goes through the boxes in descending order
\* of confidence and is greedy, class-aware and inclusive: a box is kept if
\* and only if no kept box before it has its label and an IoU with it that is
\* >= the threshold, and the kept boxes are returned in that order.  For the
\* boxes (0,0,10,10,0.9,car) and (1,1,11,11,0.8,car) and the threshold 0.5
\* only the first is returned.
C13_GreedyClassAwareNms ==
    dpc \in {"done", "doneP"} =>
        /\ Len(boxes) = Len(input)
        /\ \A k, l \in 1..Len(boxes) :
              k < l => FGe(boxes[k].confidence, boxes[l].confidence)
        /\ \E K \in SUBSET (1..Len(boxes)) :
              /\ \A k \in 1..Len(boxes) :
                    k \in K <=>
                        ~\E i \in K :
                            /\ i < k
                            /\ boxes[i].label = boxes[k].label
                            /\ FGe(iou(boxes[i], boxes[k]), iouThreshold)
              /\ selected = BoxesAt(boxes, K)
        /\ (input \in {<<ExampleA, ExampleB>>, <<ExampleB, ExampleA>>}
            /\ iouThreshold = Frac(1, 2)) => selected = <<ExampleA>>

\* C13 witness: nonMaxSuppression returned only (0,0,10,10) for the two boxes
\* of the example and the threshold 0.5
C13_Witness ==
    /\ dpc = "done"
    /\ input = <<ExampleB, ExampleA>>
    /\ iouThreshold = Frac(1, 2)
    /\ selected = <<ExampleA>>

\* the number of entries of the slice bs that equal the box x
Count(bs, x) == Cardinality({k \in 1..Len(bs) : bs[k] = x})

\* C14 (NmsSpec): boxes of different labels never suppress each other: a box
\* of the input is missing from the output only if the output has a box of
\* its label, and of two boxes with different labels, each the only one of
\* its label, both are in the output.
C14_ClassIsolation ==
    dpc \in {"done", "doneP"} =>
        /\ \A k \in 1..Len(input) :
              Count(selected, input[k]) < Count(input, input[k]) =>
                 \E i \in 1..Len(selected) : selected[i].label = input[k].label
        /\ \A k, l \in 1..Len(input) :
              (/\ input[k].label # input[l].label
               /\ \A m \in 1..Len(input) :
                     m \notin {k, l} =>
                        input[m].label \notin {input[k].label, input[l].label})
                 => Count(selected, input[k]) = 1 /\ Count(selected, input[l]) = 1

\* C14 witness: the output has two boxes with the same corners and different
\* labels, at a threshold of 0.5
C14_Witness ==
    /\ dpc = "doneP"
    /\ iouThreshold = Frac(1, 2)
    /\ \E k, l \in 1..Len(selected) :
          /\ selected[k].label # selected[l].label
          /\ selected[k].x1 = selected[l].x1 /\ selected[k].y1 = selected[l].y1
          /\ selected[k].x2 = selected[l].x2 /\ selected[k].y2 = selected[l].y2
          /\ FGe(iou(selected[k], selected[l]), iouThreshold)

\* the set of the boxes in the slice bs
BoxSet(bs) == {bs[k] : k \in 1..Len(bs)}

\* C15 (NmsSpec): nonMaxSuppression called on the slice it returned returns
\* the same set of boxes.
C15_NmsIdempotent == dpc = "twice" => BoxSet(selected) = BoxSet(first)

\* C15 witness: the first call dropped a box of three and kept two boxes of
\* one label and equal confidence, which the second call may sort either way
C15_Witness ==
    /\ dpc = "twice"
    /\ Len(input) = 3
    /\ Len(first) = 2
    /\ first[1].label = first[2].label
    /\ first[1].confidence = first[2].confidence
    /\ first[1] # first[2]

\* C16 (IouSpec): for every pair of boxes, b.iou(other) and other.iou(b)
\* return the same value.
C16_IouSymmetric == dpc = "iou" => iouVal = iouRev

\* C16 witness: iou was called on two different boxes that overlap
C16_Witness ==
    /\ dpc = "iou"
    /\ b # other
    /\ FLt(Float(0), iouVal)
    /\ FLt(iouVal, Float(1))

\* a box with x2 > x1 and y2 > y1
ValidBox(bb) == FLt(bb.x1, bb.x2) /\ FLt(bb.y1, bb.y2)

\* C17 (IouSpec): for two valid boxes iou is the area of their overlap divided
\* by the area of their union; it lies between 0 and 1 and it is 1 for a box
\* and itself.
C17_IouIsAreaRatio ==
    (dpc = "iou" /\ ValidBox(b) /\ ValidBox(other)) =>
        LET larger(x, y) == IF FLt(x, y) THEN y ELSE x
            smaller(x, y) == IF FLt(x, y) THEN x ELSE y
            w == FSub(smaller(b.x2, other.x2), larger(b.x1, other.x1))
            h == FSub(smaller(b.y2, other.y2), larger(b.y1, other.y1))
            overlap == IF FLt(Float(0), w) /\ FLt(Float(0), h)
                          THEN FMul(w, h) ELSE Float(0)
            whole == FSub(FAdd(FMul(FSub(b.x2, b.x1), FSub(b.y2, b.y1)),
                               FMul(FSub(other.x2, other.x1),
                                    FSub(other.y2, other.y1))),
                          overlap)
        IN  /\ iouVal = FDiv(overlap, whole)
            /\ FLe(Float(0), iouVal) /\ FLe(iouVal, Float(1))
            /\ b = other => iouVal = Float(1)

\* the largest class score of an anchor, and 0 when no score is positive
BestScore(a) ==
    CHOOSE m \in {a.cls[c] : c \in 1..Len(a.cls)} \cup {Float(0)} :
        \A c \in 1..Len(a.cls) : FLe(a.cls[c], m) /\ FLe(Float(0), m)

\* C18 (DetectSpec): the confidence filter is inclusive at the threshold.  No
\* candidate and no returned box has a confidence below the threshold, and
\* the candidates are exactly the anchors with a best score at or above the
\* threshold whose clamped box has a width and a height; an anchor with a
\* best score equal to the threshold is among them.
C18_ConfidenceFilterInclusive ==
    dpc = "detected" =>
        /\ \A k \in 1..Len(input) : FGe(input[k].confidence, confThreshold)
        /\ BoxSet(selected) \subseteq BoxSet(input)
        /\ Len(input) =
              Cardinality({k \in 1..Len(output) :
                  /\ FGe(BestScore(output[k]), confThreshold)
                  /\ ValidBox(anchorBox(output[k], originalWidth,
                                        originalHeight, resized.info))})
        /\ \A k \in 1..Len(output) :
              (/\ FEq(BestScore(output[k]), confThreshold)
               /\ ValidBox(anchorBox(output[k], originalWidth,
                                     originalHeight, resized.info)))
                 => \E i \in 1..Len(input) :
                       input[i] = anchorBox(output[k], originalWidth,
                                            originalHeight, resized.info)

\* C18 witness: of two anchors with the box in the middle, the one with a best
\* score of 0.49 is discarded and the one with a best score of 0.50 is the
\* only candidate, at a threshold of 0.5
C18_Witness ==
    /\ dpc = "detected"
    /\ confThreshold = Frac(1, 2)
    /\ BestScore(output[1]) = Frac(49, 100)
    /\ BestScore(output[2]) = Frac(1, 2)
    /\ output[1].xc = Float(320) /\ output[2].xc = Float(320)
    /\ Len(input) = 1
    /\ input[1].confidence = Frac(1, 2)
    /\ selected = input

\* C19 (DetectSpec): every box processOutput returns, and every candidate,
\* has 0 <= x1 < x2 <= originalWidth and 0 <= y1 < y2 <= originalHeight.
C19_BoxesWithinImage ==
    dpc = "detected" =>
        \A bb \in BoxSet(selected) \cup BoxSet(input) :
            /\ FLe(Float(0), bb.x1) /\ FLt(bb.x1, bb.x2)
            /\ FLe(bb.x2, Float(originalWidth))
            /\ FLe(Float(0), bb.y1) /\ FLt(bb.y1, bb.y2)
            /\ FLe(bb.y2, Float(originalHeight))

\* C19 witness: a box across the right edge was returned with x2 clamped to
\* the width, and a box in the padding above the image, with a confidence
\* at the threshold, was dropped
C19_Witness ==
    /\ dpc = "detected"
    /\ originalWidth = 1080 /\ originalHeight = 810
    /\ output[1].xc = Float(630) /\ output[2].yc = Float(10)
    /\ BestScore(output[1]) = Frac(1, 2)
    /\ BestScore(output[2]) = Frac(1, 2)
    /\ Len(selected) = 1
    /\ selected[1].x2 = Float(originalWidth)

\* C20 as stated (DetectSpec): for an image of 1080x810 and a target of 640
\* the scale is min(640/1080, 640/810), about 0.593, padLeft is about 27 and
\* padTop is 0, with scaleX = scaleY = scale on a canvas of 640x640.
C20_LetterboxExampleAsStated ==
    (dpc # "loaded" /\ originalWidth = 1080 /\ originalHeight = 810
     /\ targetSize = 640) =>
        /\ resized.info.ScaleX = Frac(640, 1080)
        /\ resized.info.ScaleY = resized.info.ScaleX
        /\ resized.info.PadLeft \in 26..28
        /\ resized.info.PadTop = 0
        /\ resized.canvas = <<640, 640>>

\* C20 amended (DetectSpec): resizeWithLetterbox returns a canvas of
\* target x target, scaleX = scaleY = min(target/width, target/height), and
\* pads that are half of what the resized image leaves free of the canvas;
\* for an image of 1080x810 and a target of 640 the scale is 640/1080, about
\* 0.593, the resized image is 640x480, padLeft is 0 and padTop is 80.
C20_LetterboxGeometry ==
    dpc # "loaded" =>
        /\ resized.canvas = <<targetSize, targetSize>>
        /\ resized.info.ScaleX = resized.info.ScaleY
        /\ \/ resized.info.ScaleX = Frac(targetSize, originalWidth)
           \/ resized.info.ScaleX = Frac(targetSize, originalHeight)
        /\ FLe(FMul(resized.info.ScaleX, Float(originalWidth)), Float(targetSize))
        /\ FLe(FMul(resized.info.ScaleX, Float(originalHeight)), Float(targetSize))
        /\ resized.info.PadLeft = resized.drawn.MinX
        /\ resized.info.PadTop = resized.drawn.MinY
        /\ targetSize - resized.drawn.MaxX - resized.info.PadLeft \in {0, 1}
        /\ targetSize - resized.drawn.MaxY - resized.info.PadTop \in {0, 1}
        /\ (originalWidth = 1080 /\ originalHeight = 810 /\ targetSize = 640) =>
              /\ resized.info.ScaleX = Frac(640, 1080)
              /\ FLt(Frac(5925, 10000), resized.info.ScaleX)
              /\ FLt(resized.info.ScaleX, Frac(5935, 10000))
              /\ resized.drawn = Rect(0, 80, 640, 560)
              /\ resized.info.PadLeft = 0
              /\ resized.info.PadTop = 80

\* C20 witness: resizeWithLetterbox returned for an image of 1080x810 and a
\* target of 640, with a top pad of 80
C20_Witness ==
    /\ dpc = "prepared"
    /\ originalWidth = 1080 /\ originalHeight = 810 /\ targetSize = 640
    /\ resized.info.PadTop = 80

\* |x - y| <= 0.001 * |y|
WithinTolerance(x, y) ==
    LET diff == IF FLt(x, y) THEN FSub(y, x) ELSE FSub(x, y)
        size == IF FLt(y, Float(0)) THEN FSub(Float(0), y) ELSE y
    IN  FLe(diff, FMul(Frac(1, 1000), size))

C22_CanvasStrideAligned ==
    (dpc = "prepared" /\ useRectScaling) =>
        LET unpadWidth == resized.drawn.MaxX - resized.drawn.MinX
            unpadHeight == resized.drawn.MaxY - resized.drawn.MinY
        IN  /\ resized.canvas[1] % stride = 0
            /\ resized.canvas[2] % stride = 0
            /\ resized.canvas[1] >= unpadWidth
            /\ resized.canvas[1] - unpadWidth < stride
            /\ resized.canvas[2] >= unpadHeight
            /\ resized.canvas[2] - unpadHeight < stride

\* C23 (GeometrySpec): with the -rect flag set the program, whose sessions
\* have tensors of a fixed shape, does not get past its startup: no image is
\* loaded and prepareInput never runs in stride-aligned mode.
C23_RectModeFlaggedAtStartup ==
    useRectScaling => dpc \notin {"loaded", "prepared"}

\* what processOutput returns for the output tensor out when no other call
\* of processOutput has been made
RunAlone(out) ==
    {nonMaxSuppressionP(sorted, PoolIouThreshold) :
        sorted \in SortSlice(boundingBoxes(out, 1, PoolImage[1], PoolImage[2],
                                           PoolConfThreshold, PoolInfo))}

\* C24 (BoxPoolSpec): processOutput mutates no shared state: a call that has
\* returned, whatever calls ran before it or run beside it, has returned the
\* detections that the call returns when it runs alone on its output tensor.
C24_ProcessOutputPure ==
    \A d \in Detectors :
        ppc[d] = "returned" => detections[d] \in RunAlone(tensor[d])

\* C28 (BoxPoolSpec): no boundingBox object is in boundingBoxPool twice, and
\* no object is behind two of the boxes that calls of processOutput have
\* collected and not yet copied out.
C28_BoxReturnedOnce ==
    /\ \A o \in 1..Len(heap) : boundingBoxPool[o] <= 1
    /\ \A d, e \in Detectors :
          \A k \in 1..Len(boxPtrs[d]), l \in 1..Len(boxPtrs[e]) :
              (/\ ppc[d] \in {"anchors", "suppress"}
               /\ ppc[e] \in {"anchors", "suppress"}
               /\ <<d, k>> # <<e, l>>) => boxPtrs[d][k] # boxPtrs[e][l]

\* the number of places, in the task queue and in the batches of the
\* workers, at which the task with this id is
TaskCopies(id) ==
    Cardinality({k \in 1..Len(taskQueue) : taskQueue[k].id = id})
    + Cardinality({<<w, k>> \in Workers \X (1..batchSize) :
                      k <= Len(taskBatch[w]) /\ taskBatch[w][k].id = id})

\* how far worker w is with the task its range loop is at: 1 in GetSession
\* and before processTask has its result, 2 with the result and before the
\* publication to the callback, 3 before the publication to the result
\* queue, and 0 when it is at no task
Phase(w) ==
    IF pc[w] = "pub_queue" THEN 3
    ELSE IF pc[w] \in {"task_ret", "put_dec", "put_push", "put_ret"} THEN 2
    ELSE IF InGetSession(w) \/ pc[w] = "get_ret" THEN 1
    ELSE 0

\* C25 (Spec): an accepted task is at one place only, in the task queue or
\* in the batch of one worker; a task enters a batch only from the head of
\* the queue and leaves it only with the whole batch after the last
\* publication; a worker never goes back to an earlier task of its batch or
\* to an earlier phase of its task, so that it processes the task once; and
\* a result goes to a callback only in the one step that ends phase 2 and to
\* the result queue only in the one step that ends phase 3, and is the
\* result of the task the worker is at.
C25_TaskConsumedOnce ==
    /\ [](\A id \in (-MaxExt)..(-1) : TaskCopies(id) <= 1)
    /\ [][\A w \in Workers :
            taskBatch'[w] # taskBatch[w] =>
                \/ /\ pc[w] = "collect"
                   /\ taskQueue # <<>>
                   /\ taskBatch'[w] = Append(taskBatch[w], Head(taskQueue))
                   /\ taskQueue' = Tail(taskQueue)
                \/ /\ pc[w] = "pub_queue"
                   /\ idx[w] = Len(taskBatch[w])
                   /\ taskBatch'[w] = <<>>]_vars
    /\ [][\A w \in Workers :
            (taskBatch'[w] = taskBatch[w] /\ pc'[w] \notin {"panic", "done"}) =>
                \/ idx'[w] > idx[w]
                \/ idx'[w] = idx[w] /\ Phase(w)' >= Phase(w)]_vars
    /\ [][sink' # sink =>
            \E w \in Workers :
                /\ Phase(w) = 2 /\ Phase(w)' = 3
                /\ result[w].ImagePath = taskBatch[w][idx[w]].ImagePath
                /\ sink' = [sink EXCEPT ![taskBatch[w][idx[w]].Callback] =
                               Append(@, result[w])]]_vars
    /\ [][resultQueue' # resultQueue /\ Len(resultQueue') >= Len(resultQueue) =>
            \E w \in Workers :
                /\ Phase(w) = 3 /\ Phase(w)' < 3
                /\ result[w].ImagePath = taskBatch[w][idx[w]].ImagePath
                /\ resultQueue' = Append(resultQueue, result[w])]_vars

\* C25 witness: a worker is at the second task of its batch, and the result
\* of its first task is in the callback channel and in the result queue
C25_Witness ==
    \E w \in Workers :
        /\ idx[w] = 2 /\ Phase(w) = 1
        /\ sink[ExtSink] # <<>>
        /\ sink[ExtSink][1].ImagePath = taskBatch[w][1].ImagePath
        /\ resultQueue # <<>>
        /\ resultQueue[1].ImagePath = taskBatch[w][1].ImagePath

\* C26 (QuietSpec): processTask releases the session it acquired on every
\* outcome.  GetSession returns with a session exactly when it returns no
\* error, and the steps of a call that fails leave the active count alone.
\* After a failed GetSession processTask returns without PutSession; after
\* a successful one, whatever the outcome of the task, it goes through
\* PutSession once, which decrements the active count by one and takes the
\* session from the worker, and then returns.  A worker that has the result
\* of processTask holds no session.
C26_SessionReleased ==
    /\ [](\A w \in Workers :
            /\ pc[w] = "get_ret" => (getErr[w] = "none") = (held[w] # NoSession)
            /\ pc[w] \in {"task_ret", "put_ret", "pub_queue", "collect"} =>
                  held[w] = NoSession)
    /\ [][\A w \in Workers :
            (pc'[w] # pc[w] /\ pc'[w] = "get_ret" /\ getErr'[w] # "none") =>
                activeSessions' = activeSessions]_vars
    /\ [][\A w \in Workers :
            (pc'[w] # pc[w] /\ pc[w] \in {"get_select", "create_check",
                                            "create_sleep", "create_init"}) =>
                activeSessions' = activeSessions]_vars
    /\ [][\A w \in Workers :
            (pc[w] = "get_ret" /\ pc'[w] # "get_ret") =>
                IF getErr[w] # "none"
                   THEN /\ pc'[w] = "task_ret"
                        /\ result'[w].Error = "session"
                        /\ UNCHANGED <<activeSessions, sessions, live>>
                   ELSE /\ pc'[w] = "put_dec"
                        /\ result'[w].Error \in TaskOutcomes
                        /\ held'[w] = held[w]]_vars
    /\ [][\A w \in Workers :
            (pc[w] = "put_dec" /\ pc'[w] # "put_dec") =>
                /\ activeSessions' = activeSessions - 1
                /\ pc'[w] = "put_push"]_vars
    /\ [][\A w \in Workers :
            (pc[w] = "put_push" /\ pc'[w] # "put_push") =>
                /\ pc'[w] = "put_ret"
                /\ activeSessions' = activeSessions
                /\ held'[w] = NoSession
                /\ \A v \in Workers \ {w} : held'[v] # held[w]]_vars
    /\ [][\A w \in Workers :
            (pc[w] \in {"put_ret", "task_ret"} /\ pc'[w] # pc[w]) =>
                /\ pc'[w] = "pub_queue"
                /\ activeSessions' = activeSessions]_vars

\* C26 witness: a worker is about to publish the result of a task whose
\* image could not be decoded; it holds no session and the session it had
\* is back in the idle store, and no session is counted as active
C26_Witness ==
    \E w \in Workers :
        /\ pc[w] = "put_ret"
        /\ result[w].Error = "decode"
        /\ held[w] = NoSession
        /\ sessions # <<>>
        /\ activeSessions = 0

\* C27 (Spec): Stop closes the task queue, the result queue and the session
\* pool, in this order, only after every worker has terminated: whenever one
\* of them is closed or Stop is past its wait, every worker has returned and
\* holds no session, and no worker ever panics on a closed channel.  When
\* Stop has returned, the three are closed and no session that the pool
\* created is left, idle or checked out.
C27_StopAfterWorkers ==
    /\ (\/ spc \in {"close_task", "close_result", "close_pool", "stopped"}
        \/ taskQueueClosed \/ resultQueueClosed \/ sessionsClosed) =>
           \A w \in Workers : pc[w] = "done" /\ held[w] = NoSession
    /\ \A w \in Workers : pc[w] # "panic"
    /\ sessionsClosed => resultQueueClosed
    /\ resultQueueClosed => taskQueueClosed
    /\ spc = "stopped" =>
           /\ taskQueueClosed /\ resultQueueClosed /\ sessionsClosed
           /\ sessions = <<>>
           /\ live = {}
           /\ \A w \in Workers : held[w] = NoSession

\* C27 witness: Stop has returned after a worker processed a task with a
\* session and sent its result to the result queue
C27_Witness ==
    /\ spc = "stopped"
    /\ resultQueue # <<>>
    /\ resultQueue[1].Error = "none"
    /\ live = {}

\* C29 (ManagerPoolSpec): the sessions that exist, idle or checked out and
\* the pre-created ones among them, are never more than maxSize.
C29_LiveWithinMaxSize == Cardinality(live) <= maxSize

\* C29 witness: every worker holds a session, one of them a session that a
\* worker created, and the pool is at maxSize sessions
C29_Witness ==
    /\ \A w \in Procs : pc[w] = "using"
    /\ Cardinality(live) = maxSize
    /\ maxSize = workerCount

\* C30 (StopSpec): Stop always completes.  Once the shutdown signal is given
\* every worker terminates and the join in Stop returns, and Stop goes on to
\* its end.
C30_StopCompletes ==
    shutdown ~> (spc = "stopped" /\ wg = 0 /\ \A w \in Workers : pc[w] = "done")

\* C30 witness: Stop waits for the workers while a worker, whose shutdown
\* channel is closed, is about to publish a result to the full result queue,
\* after the callback channel was full too
C30_Witness ==
    /\ spc = "wait"
    /\ \E w \in Workers :
          /\ wshutdown[w]
          /\ pc[w] = "pub_queue"
          /\ idx[w] >= 2
          /\ Len(resultQueue) = queueCap
          /\ Len(sink[ExtSink]) = SinkCap

====
